---- MODULE Spec2Model ----
(***************************************************************************)
(* Verification model of the ERP transactional core of corngr             *)
(* (src-tauri/src/erp): ReplayGuard, status machine, ABAC policy          *)
(* evaluator, MutationEnvelope sign/verify and the in-memory ErpStore     *)
(* with its mutating commands.                                             *)
(***************************************************************************)
EXTENDS Integers, Sequences, FiniteSets, TLC

VARIABLES
    replay,        \* ReplayGuard { max_lamport, seen_mutations } (ErpStore.replay)
    rg_last,       \* the last check_and_record call: arguments, guard before, result
    rg_rewound,    \* mutation ids some call has rejected with the rewind error
    sm_log,        \* the calls of status::transition made so far, with their results
    abac_last,     \* the last check_abac call: arguments and result
    env_orig,      \* the envelope MutationEnvelope::sign returned last
    env,           \* that envelope as it is now (a caller may have changed a field)
    env_field,     \* the field changed since signing, "none" if untouched
    env_res,       \* the result of verify() on env, NotVerified before the call
    transactions,  \* ErpStore.transactions: tx_id -> TxHeader
    lines,         \* ErpStore.lines: line_id -> TxLine
    invmoves,      \* ErpStore.invmoves: move_id -> InvMove
    actor_prev_hash, \* ErpStore.actor_prev_hash: actor pubkey -> last envelope hash
    postings,      \* ErpStore.postings: posting_id -> Posting
    store_lock,    \* holder of the ERP_STORE mutex, NoProc when free
    audit_lock,    \* holder of the ERP_AUDIT_LOCK mutex, NoProc when free
    last_hash_lock, \* holder of the ERP_LAST_HASH mutex, NoProc when free
    db_lock,       \* holder of the ERP_DB mutex, NoProc when free
    audit_file,    \* the lines of the audit log file, oldest first
    last_chain_hash, \* ERP_LAST_HASH
    pc,            \* per caller thread: where it is in the command it runs
    loc,           \* per caller thread: the locals it carries between steps
    commits,       \* the envelopes of the mutations committed to the store, in commit order
    last_admission, \* the last call that came to the store's replay guard: caller, actor, verdict
    status_by,     \* per transaction: the role of the caller that gave it its present status
    audit_return,  \* what the last command that came to its audit-log tail returned
    audit_changed, \* the line of the audit log file edited behind the program's back, 0 if none
    chain_res,     \* the result of verify_chain() on the file as it is, NotChecked before the call
    post_last      \* the last direct call of validate_post or validate_balance: arguments, result

\* ---------------------------------------------------------------- bounds

MaxLamport == 1
MaxMutIds == 3
MaxStatusCalls == 2
MaxTime == 1
MaxCommits == 3
MaxLineCommits == 4
MaxEntries == 2
MaxPostings == 2
MaxLedgerLines == 2
MaxLockCommits == 3

\* ---------------------------------------------------------------- results

\* Result<_, ErpError>: the error is its code() plus the values it carries.
Ok == [ok |-> TRUE, code |-> "OK", detail |-> <<>>]
Err(code, detail) == [ok |-> FALSE, code |-> code, detail |-> detail]

\* ---------------------------------------------------------------- ReplayGuard

PubKeys == {"pk1", "pk2"}
Lamports == 0 .. MaxLamport
MutationIds == 1 .. MaxMutIds

\* ReplayGuard::new(): both collections empty.
ReplayGuardNew == [max_lamport |-> [a \in {} |-> 0], seen_mutations |-> {}]

\* HashMap::insert on max_lamport.
MapInsert(m, k, v) == [x \in DOMAIN m \cup {k} |-> IF x = k THEN v ELSE m[x]]

\* A guard whose lamport test is strict the wrong way round (lamport < max).
CheckAndRecord_AcceptsEqual(g, actor_pubkey, mutation_id, lamport) ==
    IF mutation_id \in g.seen_mutations
    THEN [res |-> Err("ERR_REPLAY_MUTATION_ID", <<mutation_id>>), guard |-> g]
    ELSE IF actor_pubkey \in DOMAIN g.max_lamport /\ lamport < g.max_lamport[actor_pubkey]
    THEN [res |-> Err("ERR_LAMPORT_REWIND", <<lamport, g.max_lamport[actor_pubkey]>>),
          guard |-> g]
    ELSE [res |-> Ok,
          guard |-> [max_lamport |-> MapInsert(g.max_lamport, actor_pubkey, lamport),
                     seen_mutations |-> g.seen_mutations \cup {mutation_id}]]

\* A guard that records the mutation id before it tests the lamport value.
CheckAndRecord_RecordsEarly(g, actor_pubkey, mutation_id, lamport) ==
    IF mutation_id \in g.seen_mutations
    THEN [res |-> Err("ERR_REPLAY_MUTATION_ID", <<mutation_id>>), guard |-> g]
    ELSE IF actor_pubkey \in DOMAIN g.max_lamport /\ lamport <= g.max_lamport[actor_pubkey]
    THEN [res |-> Err("ERR_LAMPORT_REWIND", <<lamport, g.max_lamport[actor_pubkey]>>),
          guard |-> [g EXCEPT !.seen_mutations = @ \cup {mutation_id}]]
    ELSE [res |-> Ok,
          guard |-> [max_lamport |-> MapInsert(g.max_lamport, actor_pubkey, lamport),
                     seen_mutations |-> g.seen_mutations \cup {mutation_id}]]

\* A guard that records the mutation id but leaves a recorded maximum alone.
CheckAndRecord_StaleMax(g, actor_pubkey, mutation_id, lamport) ==
    IF mutation_id \in g.seen_mutations
    THEN [res |-> Err("ERR_REPLAY_MUTATION_ID", <<mutation_id>>), guard |-> g]
    ELSE IF actor_pubkey \in DOMAIN g.max_lamport /\ lamport <= g.max_lamport[actor_pubkey]
    THEN [res |-> Err("ERR_LAMPORT_REWIND", <<lamport, g.max_lamport[actor_pubkey]>>),
          guard |-> g]
    ELSE [res |-> Ok,
          guard |-> [max_lamport |-> IF actor_pubkey \in DOMAIN g.max_lamport
                                     THEN g.max_lamport
                                     ELSE MapInsert(g.max_lamport, actor_pubkey, 0),
                     seen_mutations |-> g.seen_mutations \cup {mutation_id}]]

\* ReplayGuard::check_and_record: the result and the guard it leaves behind.
CheckAndRecord(g, actor_pubkey, mutation_id, lamport) ==
    IF mutation_id \in g.seen_mutations
    THEN [res |-> Err("ERR_REPLAY_MUTATION_ID", <<mutation_id>>), guard |-> g]
    ELSE IF actor_pubkey \in DOMAIN g.max_lamport /\ lamport <= g.max_lamport[actor_pubkey]
    THEN [res |-> Err("ERR_LAMPORT_REWIND", <<lamport, g.max_lamport[actor_pubkey]>>),
          guard |-> g]
    ELSE [res |-> Ok,
          guard |-> [max_lamport |-> MapInsert(g.max_lamport, actor_pubkey, lamport),
                     seen_mutations |-> g.seen_mutations \cup {mutation_id}]]

NoGuardCall == [called |-> FALSE]

\* One call of check_and_record on the guard, with arguments of the caller's choice.
GuardCall(a, m, l) ==
    LET r == CheckAndRecord(replay, a, m, l) IN
    /\ replay' = r.guard
    /\ rg_last' = [called |-> TRUE, actor |-> a, mutation_id |-> m, lamport |-> l,
                   pre |-> replay, res |-> r.res]
    /\ rg_rewound' = IF r.res.code = "ERR_LAMPORT_REWIND"
                     THEN rg_rewound \cup {m} ELSE rg_rewound

GuardInit ==
    /\ replay = ReplayGuardNew
    /\ rg_last = NoGuardCall
    /\ rg_rewound = {}

guard_vars == <<replay, rg_last, rg_rewound>>

\* ---------------------------------------------------------------- status machine

\* TxStatus, by as_str().
Statuses == {"draft", "proposed", "approved", "posted", "void"}

\* A status machine in which a posted transaction can still be voided.
Transition_PostedToVoid(current, target) ==
    LET allowed ==
            CASE current = "draft" -> target \in {"proposed", "void"}
              [] current = "proposed" -> target \in {"approved", "void"}
              [] current = "approved" -> target \in {"posted"}
              [] current = "posted" -> target \in {"void"}
              [] current = "void" -> FALSE
    IN  IF allowed THEN [ok |-> TRUE, code |-> "OK", detail |-> <<target>>]
        ELSE Err("ERR_INVALID_STATUS", <<current, target>>)

\* status::transition(current, target): Ok(target) or InvalidStatus(current, target).
Transition(current, target) ==
    LET allowed ==
            CASE current = "draft" -> target \in {"proposed", "void"}
              [] current = "proposed" -> target \in {"approved", "void"}
              [] current = "approved" -> target \in {"posted"}
              [] current = "posted" -> FALSE
              [] current = "void" -> FALSE
    IN  IF allowed THEN [ok |-> TRUE, code |-> "OK", detail |-> <<target>>]
        ELSE Err("ERR_INVALID_STATUS", <<current, target>>)

\* One call of transition with a pair of statuses of the caller's choice.
StatusCall(c, t) ==
    /\ Len(sm_log) < MaxStatusCalls
    /\ sm_log' = Append(sm_log, [current |-> c, target |-> t, res |-> Transition(c, t)])

StatusInit == sm_log = <<>>

\* ---------------------------------------------------------------- ABAC

\* Role, by as_str().
Roles == {"owner_admin", "manager", "finance", "staff", "auditor", "engine"}

\* Action, by the names Action::from_str accepts.
Actions == {"tx.create", "tx.edit", "tx.post", "tx.reverse", "tx.void",
            "posting.create", "posting.finalize", "invmove.create",
            "index.update", "audit.read"}

\* PolicyContext.tx_status: Option<TxStatus>.
NoStatus == "none"
OptStatuses == Statuses \cup {NoStatus}

\* require_role: Ok if the actor's role is among the allowed ones.
RequireRole(role, allowed) ==
    IF role \in allowed THEN Ok ELSE Err("ERR_ABAC_DENY", <<"role", role>>)

\* A policy whose edit rule forgets the void status.
CheckAbac_EditOnVoid(role, action, tx_status) ==
    LET editors == {"staff", "manager", "finance", "owner_admin"}
        r == CASE action \in {"tx.create", "tx.edit", "invmove.create"} ->
                      RequireRole(role, editors)
               [] action \in {"posting.create", "posting.finalize", "tx.post", "tx.reverse"} ->
                      RequireRole(role, {"finance", "owner_admin"})
               [] action = "tx.void" -> RequireRole(role, {"manager", "finance", "owner_admin"})
               [] action = "audit.read" -> RequireRole(role, {"auditor", "finance", "owner_admin"})
               [] action = "index.update" -> Ok
    IN  IF ~r.ok THEN r
        ELSE CASE action = "tx.edit" /\ tx_status \in {"posted"} ->
                      Err("ERR_ABAC_DENY", <<"tx.edit", tx_status>>)
               [] action = "invmove.create" /\ tx_status = "posted" ->
                      Err("ERR_ABAC_DENY", <<"invmove.create", tx_status>>)
               [] action = "tx.void" /\ tx_status = "posted" ->
                      Err("ERR_ABAC_DENY", <<"tx.void", tx_status>>)
               [] action = "index.update" /\ role # "engine" ->
                      Err("ERR_ABAC_DENY", <<"index.update", role>>)
               [] OTHER -> Ok

\* check_abac(actor, action, context): only actor.role and context.tx_status are read.
CheckAbac(role, action, tx_status) ==
    LET editors == {"staff", "manager", "finance", "owner_admin"}
        r == CASE action \in {"tx.create", "tx.edit", "invmove.create"} ->
                      RequireRole(role, editors)
               [] action \in {"posting.create", "posting.finalize", "tx.post", "tx.reverse"} ->
                      RequireRole(role, {"finance", "owner_admin"})
               [] action = "tx.void" -> RequireRole(role, {"manager", "finance", "owner_admin"})
               [] action = "audit.read" -> RequireRole(role, {"auditor", "finance", "owner_admin"})
               [] action = "index.update" -> Ok
    IN  IF ~r.ok THEN r
        ELSE CASE action = "tx.edit" /\ tx_status \in {"posted", "void"} ->
                      Err("ERR_ABAC_DENY", <<"tx.edit", tx_status>>)
               [] action = "invmove.create" /\ tx_status = "posted" ->
                      Err("ERR_ABAC_DENY", <<"invmove.create", tx_status>>)
               [] action = "tx.void" /\ tx_status = "posted" ->
                      Err("ERR_ABAC_DENY", <<"tx.void", tx_status>>)
               [] action = "index.update" /\ role # "engine" ->
                      Err("ERR_ABAC_DENY", <<"index.update", role>>)
               [] OTHER -> Ok

NoAbacCall == [called |-> FALSE]

\* One call of check_abac with a role, action and status of the caller's choice.
AbacCall(role, action, st) ==
    abac_last' = [called |-> TRUE, role |-> role, action |-> action, tx_status |-> st,
                  res |-> CheckAbac(role, action, st)]

AbacInit == abac_last = NoAbacCall

\* ---------------------------------------------------------------- MutationEnvelope

\* Op values (the serde-tagged enum), as the records their JSON shows.
MapSet(fragment_id, key, value) ==
    [kind |-> "map_set", fragment_id |-> fragment_id, key |-> key, value |-> value]
ArrayInsert(fragment_id, index, values) ==
    [kind |-> "array_insert", fragment_id |-> fragment_id, index |-> index, values |-> values]

\* serde_json::to_string: an injective rendering of the value as text. The
\* membership test puts the value in normal form first, so that equal values
\* have the same text however they were built.
ToJson(v) == IF v \in {v} THEN ToString(v) ELSE ""

\* hex::encode(Sha256(bytes)): a collision-free digest, spelled in lowercase hex.
Sha256Hex(bytes) == "sha256(" \o bytes \o ")"

\* u64::to_be_bytes / i64::to_be_bytes: a fixed-width big-endian rendering.
BeBytes(n) == IF n < 10 THEN "0" \o ToString(n) ELSE ToString(n)

\* build_signing_payload: the five byte strings, concatenated without separators.
BuildSigningPayload(version, content_hash, prev_hash, lamport, issued_at_ms) ==
    version \o content_hash \o prev_hash \o BeBytes(lamport) \o BeBytes(issued_at_ms)

\* get_signing_key(): the node's persistent Ed25519 key.
NodeKey == "node_key"

\* get_actor_pubkey_hex(): hex::encode of the node key's verifying key.
NodePubKeyHex == "node_pub_hex"

\* hex::decode of an actor_pubkey string followed by the [u8; 32] conversion.
\* Identities such as "pk1" hold characters that are no hex digits; hex digits
\* are read in either letter case.
DecodePubKey(s) ==
    CASE s \in {"node_pub_hex", "NODE_PUB_HEX"} -> [hex |-> TRUE, len32 |-> TRUE, key |-> NodeKey]
      [] s = "other_pub_hex" -> [hex |-> TRUE, len32 |-> TRUE, key |-> "other_key"]
      [] s = "abcd" -> [hex |-> TRUE, len32 |-> FALSE, key |-> "none"]
      [] OTHER -> [hex |-> FALSE, len32 |-> FALSE, key |-> "none"]

\* SigningKey::sign: the one 64-byte signature that verifies for (key, message).
Ed25519Sign(key, message) == [key |-> key, msg |-> message]

\* hex::encode of a byte block: lowercase digits.
HexEncode(bytes) == [bytes |-> bytes, spelling |-> "lower"]

\* hex::decode of a signature string followed by the [u8; 64] conversion: the
\* digits are read in either letter case; "short" is a string with digits
\* missing, "nothex" one with a character that is no hex digit.
HexDecode(h) ==
    [hex |-> h.spelling \in {"lower", "upper", "short"},
     full |-> h.spelling \in {"lower", "upper"},
     bytes |-> h.bytes]

\* A serializer that fails on an op carrying an array.
OpsToJsonResult_FailsOnArrays(ops) ==
    IF \E i \in 1 .. Len(ops) : ops[i].kind = "array_insert"
    THEN Err("ERR_VALIDATION_FAIL", <<"ops serialization">>)
    ELSE Ok

\* The one fallible step of MutationEnvelope::sign, serde_json::to_string(&ops)
\* with its map_err: the ops are fragment ids, keys, indices and
\* serde_json::Value payloads, all of which serialize, so it is always Ok.
OpsToJsonResult(ops) == Ok

\* MutationEnvelope::sign. The signature is made with the node key whatever
\* actor.pubkey is; actor_pubkey records actor.pubkey.
SignEnvelope(mutation_id, actor, ops, policy_context, prev_hash, now_ms) ==
    LET content_hash == Sha256Hex(ToJson(ops))
        payload == BuildSigningPayload("1", content_hash, prev_hash, actor.lamport, now_ms)
    IN  [envelope_version |-> "1",
         org_id |-> actor.org_id,
         mutation_id |-> mutation_id,
         actor_pubkey |-> actor.pubkey,
         issued_at_ms |-> now_ms,
         lamport |-> actor.lamport,
         prev_hash |-> prev_hash,
         ops |-> ops,
         policy_context |-> policy_context,
         content_hash |-> content_hash,
         signature |-> HexEncode(Ed25519Sign(NodeKey, payload))]

\* MutationEnvelope::verify.
VerifyEnvelope(e) ==
    LET expected_hash == Sha256Hex(ToJson(e.ops))
        payload == BuildSigningPayload(e.envelope_version, e.content_hash, e.prev_hash,
                                       e.lamport, e.issued_at_ms)
        pk == DecodePubKey(e.actor_pubkey)
        sig == HexDecode(e.signature)
    IN  IF expected_hash # e.content_hash
        THEN Err("ERR_SIG_INVALID", <<"content_hash mismatch">>)
        ELSE IF ~pk.hex THEN Err("ERR_SIG_INVALID", <<"invalid actor_pubkey hex">>)
        ELSE IF ~pk.len32 THEN Err("ERR_SIG_INVALID", <<"actor_pubkey must be 32 bytes">>)
        ELSE IF ~sig.hex THEN Err("ERR_SIG_INVALID", <<"invalid signature hex">>)
        ELSE IF ~sig.full THEN Err("ERR_SIG_INVALID", <<"signature must be 64 bytes">>)
        ELSE IF sig.bytes # Ed25519Sign(pk.key, payload)
        THEN Err("ERR_SIG_INVALID", <<"signature verification failed">>)
        ELSE Ok

\* An envelope hash taken over the ops alone.
EnvelopeHash_ContentHash(e) == e.content_hash

\* MutationEnvelope::envelope_hash.
EnvelopeHash(e) == Sha256Hex(ToJson(e))

\* Inputs of the envelope round trip.
EnvPubKeys == {"pk1", "node_pub_hex", "NODE_PUB_HEX", "other_pub_hex", "abcd"}
EnvOps == {<<>>,
           <<MapSet("tx:1:hdr", "status", "draft")>>,
           <<MapSet("tx:1:hdr", "status", "posted")>>}
EnvPrevHashes == {"genesis", Sha256Hex("e0")}
Times == 0 .. MaxTime
EnvPolicy == [org_id |-> "org1", tx_id |-> 1, tx_status |-> "draft"]

NoEnvelope == [envelope_version |-> "none"]
NotVerified == [ok |-> FALSE, code |-> "NOT_VERIFIED", detail |-> <<>>]

\* A call of MutationEnvelope::sign.
EnvSign(pubkey, lamport, ops, prev_hash, now_ms) ==
    LET actor == [pubkey |-> pubkey, role |-> "finance", org_id |-> "org1", lamport |-> lamport]
        e == SignEnvelope(1, actor, ops, EnvPolicy, prev_hash, now_ms)
    IN  /\ env_orig = NoEnvelope
        /\ env_orig' = e
        /\ env' = e
        /\ env_field' = "none"
        /\ env_res' = NotVerified

\* The values a holder of the envelope can write into one of its fields.
TamperValues(field) ==
    CASE field = "ops" -> EnvOps
      [] field = "content_hash" -> {"deadbeef"} \cup {Sha256Hex(ToJson(o)) : o \in EnvOps}
      [] field = "signature" ->
             {[bytes |-> env_orig.signature.bytes, spelling |-> sp] :
                  sp \in {"upper", "short", "nothex"}}
             \cup {HexEncode(Ed25519Sign(k, env_orig.signature.bytes.msg)) :
                       k \in {"other_key"}}
             \cup {HexEncode(Ed25519Sign(NodeKey, BuildSigningPayload(
                       "1", env_orig.content_hash, ph, l, t))) :
                       ph \in EnvPrevHashes, l \in Lamports, t \in Times}
      [] field = "prev_hash" -> EnvPrevHashes \cup {"", "genesis0"}
      [] field = "lamport" -> Lamports
      [] field = "issued_at_ms" -> Times
      [] field = "envelope_version" -> {"1", "2", "", "11"}

TamperFields == {"ops", "content_hash", "signature", "prev_hash", "lamport",
                 "issued_at_ms", "envelope_version"}

\* One field of the signed envelope is overwritten with a different value.
EnvTamper(field) ==
    /\ env_orig # NoEnvelope
    /\ env = env_orig
    /\ \E value \in TamperValues(field) :
           /\ value # env_orig[field]
           /\ env' = [env_orig EXCEPT ![field] = value]
    /\ env_field' = field
    /\ env_res' = NotVerified
    /\ UNCHANGED env_orig

\* A call of verify() on the envelope as it is now.
EnvVerify ==
    /\ env # NoEnvelope
    /\ env_res = NotVerified
    /\ env_res' = VerifyEnvelope(env)
    /\ UNCHANGED <<env_orig, env, env_field>>

EnvInit ==
    /\ env_orig = NoEnvelope
    /\ env = NoEnvelope
    /\ env_field = "none"
    /\ env_res = NotVerified

env_vars == <<env_orig, env, env_field, env_res>>

\* ---------------------------------------------------------------- ErpStore

store_vars == <<transactions, lines, invmoves, actor_prev_hash, postings, store_lock,
                audit_lock, last_hash_lock, db_lock, audit_file, last_chain_hash, pc, loc, commits, last_admission, status_by,
                audit_return>>

Procs == {"p1", "p2"}
NoProc == "none"

\* An empty HashMap.
EmptyMap == [x \in {} |-> 0]

\* Quantities and amounts (f64 in the code) are counted in hundredths.
ROUNDING_TOLERANCE == 1

\* fragments::tx_hdr_id, tx_lines_id, txline_id, invmove_id.
TxHdrId(tx_id) == "tx:" \o ToString(tx_id) \o ":hdr"
TxLinesId(tx_id) == "tx:" \o ToString(tx_id) \o ":lines"
TxLineFragId(line_id) == "txline:" \o ToString(line_id)
InvMoveFragId(move_id) == "invmove:" \o ToString(move_id)

\* TxType::from_str accepts these names (the model uses two of the ten).
TxTypes == {"invoice_out", "journal"}

\* InventoryEffect::from_str: anything but increase/decrease reads as none.
InventoryEffectFromStr(x) == IF x \in {"increase", "decrease"} THEN x ELSE "none"

\* InventoryEffect::expected_sign: 0 stands for None.
ExpectedSign(effect) ==
    CASE effect = "increase" -> 1
      [] effect = "decrease" -> -1
      [] OTHER -> 0

\* A sign check that lets every movement through.
ValidateQtySign_AnySign(qty_delta, effect) == Ok

\* validate_qty_sign (engine.rs) / validate_invmove_direction (post.rs).
ValidateQtySign(qty_delta, effect) ==
    IF ExpectedSign(effect) # 0 /\ qty_delta * ExpectedSign(effect) < 0
    THEN Err("ERR_INVENTORY_EFFECT_MISMATCH", <<qty_delta, effect>>)
    ELSE Ok

\* Uuid::new_v4(): an id no earlier call has drawn; the ids are numbered in
\* the order in which they enter the store.
FreshId(map) == Cardinality(DOMAIN map) + 1
FreshMutationId == Cardinality(replay.seen_mutations) + 1

\* ActorContext.
Actor(pubkey, role, lamport) ==
    [pubkey |-> pubkey, role |-> role, org_id |-> "org1", lamport |-> lamport]

NoLoc == [stage |-> "none"]

\* What a command that came to the replay guard leaves in last_admission.
Admission(p, actor, res) ==
    [proc |-> p, pubkey |-> actor.pubkey, lamport |-> actor.lamport, res |-> res]
NoAdmission == [proc |-> NoProc]

\* ERP_STORE.lock(): the caller blocks until the mutex is free.
LockStore(p, from, to) ==
    /\ pc[p] = from
    /\ store_lock = NoProc
    /\ store_lock' = p
    /\ pc' = [pc EXCEPT ![p] = to]

\* The part of create_tx, add_line and create_invmove from the prev_hash
\* lookup to drop(store): replay admission, signing, the per-actor hash cache
\* and the insert `apply` makes, in one critical section.
AdmitSignApply(p, actor, tx_id, tx_status, ops, now_ms, apply_tx, apply_lines, apply_moves) ==
    LET prev_hash == IF actor.pubkey \in DOMAIN actor_prev_hash
                     THEN actor_prev_hash[actor.pubkey] ELSE "genesis"
        mutation_id == FreshMutationId
        adm == CheckAndRecord(replay, actor.pubkey, mutation_id, actor.lamport)
        policy_ctx == [org_id |-> "org1", tx_id |-> tx_id, tx_status |-> tx_status]
        signed == OpsToJsonResult(ops)
        envelope == SignEnvelope(mutation_id, actor, ops, policy_ctx, prev_hash, now_ms)
    IN  IF ~adm.res.ok
        THEN /\ replay' = adm.guard
             /\ last_admission' = Admission(p, actor, adm.res)
             /\ pc' = [pc EXCEPT ![p] = "idle"]
             /\ UNCHANGED <<actor_prev_hash, transactions, lines, invmoves,
                            commits, loc, status_by>>
        ELSE IF ~signed.ok
        THEN /\ replay' = adm.guard
             /\ last_admission' = Admission(p, actor, signed)
             /\ pc' = [pc EXCEPT ![p] = "idle"]
             /\ UNCHANGED <<actor_prev_hash, transactions, lines, invmoves,
                            commits, loc, status_by>>
        ELSE /\ replay' = adm.guard
             /\ actor_prev_hash' = MapInsert(actor_prev_hash, actor.pubkey,
                                             EnvelopeHash(envelope))
             /\ transactions' = apply_tx
             /\ lines' = apply_lines
             /\ invmoves' = apply_moves
             /\ commits' = Append(commits, envelope)
             /\ loc' = [loc EXCEPT ![p] = [stage |-> "audit", envelope |-> envelope]]
             /\ pc' = [pc EXCEPT ![p] = "audit"]
             /\ status_by' = IF tx_id \in DOMAIN transactions THEN status_by
                             ELSE MapInsert(status_by, tx_id, actor.role)
             /\ last_admission' = Admission(p, actor, Ok)

\* ---- create_tx

\* create_tx returns before it takes the store lock: the type name is unknown
\* or the policy denies tx.create.
CreateTxRejected(p, actor, tx_type) ==
    /\ pc[p] = "idle"
    /\ tx_type \notin TxTypes \/ ~CheckAbac(actor.role, "tx.create", NoStatus).ok
    /\ UNCHANGED <<replay, store_vars>>

\* create_tx reaches ERP_STORE.lock().
CreateTxLock(p) ==
    /\ LockStore(p, "idle", "create_tx")
    /\ UNCHANGED <<transactions, lines, invmoves, replay, actor_prev_hash, postings,
                   audit_file, last_chain_hash, loc, commits, last_admission, status_by, audit_return>>

\* create_tx, from the lock to drop(store), for a request that passed the
\* checks made before the lock.
CreateTxCommit(p, actor, tx_type, now_ms) ==
    /\ pc[p] = "create_tx"
    /\ tx_type \in TxTypes
    /\ CheckAbac(actor.role, "tx.create", NoStatus).ok
    /\ LET tx_id == FreshId(transactions)
           header == [tx_id |-> tx_id, org_id |-> "org1", tx_type |-> tx_type,
                      status |-> "draft", created_by_pubkey |-> actor.pubkey]
           hdr == TxHdrId(tx_id)
           ops == <<MapSet(hdr, "tx_id", tx_id), MapSet(hdr, "tx_type", tx_type),
                    MapSet(hdr, "status", "draft"), MapSet(hdr, "org_id", "org1")>>
       IN  AdmitSignApply(p, actor, tx_id, "draft", ops, now_ms,
                          MapInsert(transactions, tx_id, header), lines, invmoves)
    /\ store_lock' = NoProc
    /\ UNCHANGED <<postings, audit_file, last_chain_hash, audit_return>>

\* ---- add_line

AddLineLock(p) ==
    /\ LockStore(p, "idle", "add_line")
    /\ UNCHANGED <<transactions, lines, invmoves, replay, actor_prev_hash, postings,
                   audit_file, last_chain_hash, loc, commits, last_admission, status_by, audit_return>>

\* The checks add_line makes before it builds the line.
AddLineCheck(actor, tx_id) ==
    IF tx_id \notin DOMAIN transactions
    THEN Err("ERR_VALIDATION_FAIL", <<"tx not found", tx_id>>)
    ELSE IF ~CheckAbac(actor.role, "tx.edit", transactions[tx_id].status).ok
    THEN CheckAbac(actor.role, "tx.edit", transactions[tx_id].status)
    ELSE IF transactions[tx_id].status = "posted"
    THEN Err("ERR_LINE_IMMUTABLE", <<tx_id>>)
    ELSE Ok

\* add_line, from the lock to drop(store) or to the early return.
AddLineCommit(p, actor, req, now_ms) ==
    /\ pc[p] = "add_line"
    /\ store_lock' = NoProc
    /\ UNCHANGED <<postings, audit_file, last_chain_hash, audit_return>>
    /\ LET chk == AddLineCheck(actor, req.tx_id) IN
       IF ~chk.ok
       THEN /\ pc' = [pc EXCEPT ![p] = "idle"]
            /\ UNCHANGED <<transactions, lines, invmoves, replay, actor_prev_hash,
                           loc, commits, last_admission, status_by, audit_return>>
       ELSE LET line_id == FreshId(lines)
                line == [line_id |-> line_id, tx_id |-> req.tx_id,
                         item_id |-> req.item_id, qty |-> req.qty,
                         unit_price |-> req.unit_price,
                         inventory_effect |-> InventoryEffectFromStr(req.inventory_effect),
                         move_ids |-> <<>>]
                ops == <<MapSet(TxLineFragId(line_id), "data", line),
                         ArrayInsert(TxLinesId(req.tx_id), 0, <<line_id>>)>>
            IN  AdmitSignApply(p, actor, req.tx_id,
                               transactions[req.tx_id].status, ops, now_ms,
                               transactions, MapInsert(lines, line_id, line), invmoves)

\* ---- create_invmove

CreateInvMoveLock(p) ==
    /\ LockStore(p, "idle", "create_invmove")
    /\ UNCHANGED <<transactions, lines, invmoves, replay, actor_prev_hash, postings,
                   audit_file, last_chain_hash, loc, commits, last_admission, status_by, audit_return>>

\* Option<String> item ids: NoItem is None.
NoItem == "none"

\* The checks create_invmove makes before it builds the movement.
CreateInvMoveCheck(actor, req) ==
    IF req.tx_id \notin DOMAIN transactions
    THEN Err("ERR_VALIDATION_FAIL", <<"tx not found", req.tx_id>>)
    ELSE IF req.tx_line_id \notin DOMAIN lines
    THEN Err("ERR_VALIDATION_FAIL", <<"line not found", req.tx_line_id>>)
    ELSE IF lines[req.tx_line_id].item_id # NoItem /\ req.item_id # lines[req.tx_line_id].item_id
    THEN Err("ERR_ITEM_MISMATCH", <<req.item_id, lines[req.tx_line_id].item_id>>)
    ELSE IF ~ValidateQtySign(req.qty_delta, lines[req.tx_line_id].inventory_effect).ok
    THEN ValidateQtySign(req.qty_delta, lines[req.tx_line_id].inventory_effect)
    ELSE CheckAbac(actor.role, "invmove.create", transactions[req.tx_id].status)

\* create_invmove, from the lock to drop(store) or to the early return.
CreateInvMoveCommit(p, actor, req, now_ms) ==
    /\ pc[p] = "create_invmove"
    /\ store_lock' = NoProc
    /\ UNCHANGED <<postings, audit_file, last_chain_hash, audit_return>>
    /\ LET chk == CreateInvMoveCheck(actor, req) IN
       IF ~chk.ok
       THEN /\ pc' = [pc EXCEPT ![p] = "idle"]
            /\ UNCHANGED <<transactions, lines, invmoves, replay, actor_prev_hash,
                           loc, commits, last_admission, status_by, audit_return>>
       ELSE LET move_id == FreshId(invmoves)
                invmove == [move_id |-> move_id, tx_id |-> req.tx_id,
                            tx_line_id |-> req.tx_line_id, item_id |-> req.item_id,
                            qty_delta |-> req.qty_delta,
                            moved_by_pubkey |-> actor.pubkey]
                ops == <<MapSet(InvMoveFragId(move_id), "data", invmove)>>
            IN  AdmitSignApply(p, actor, req.tx_id,
                               transactions[req.tx_id].status, ops, now_ms,
                               transactions,
                               [lines EXCEPT ![req.tx_line_id].move_ids = Append(@, move_id)],
                               MapInsert(invmoves, move_id, invmove))

\* ---- erp_transition_status

\* The target names erp_transition_status accepts.
TransitionTargets == {"proposed", "approved", "void"}

\* erp_transition_status returns before the lock: unknown target name.
TransitionStatusRejected(p, actor, tx_id, target_status) ==
    /\ pc[p] = "idle"
    /\ target_status \notin TransitionTargets
    /\ UNCHANGED <<replay, store_vars>>

TransitionStatusLock(p) ==
    /\ LockStore(p, "idle", "transition_status")
    /\ UNCHANGED <<transactions, lines, invmoves, replay, actor_prev_hash, postings,
                   audit_file, last_chain_hash, loc, commits, last_admission, status_by, audit_return>>

\* A table that also lets a posted transaction be voided.
ValidTransition_PostedToVoid(current, target) ==
    <<current, target>> \in {<<"draft", "proposed">>, <<"proposed", "approved">>,
                             <<"draft", "void">>, <<"proposed", "void">>,
                             <<"posted", "void">>}

\* The matches! table of erp_transition_status.
ValidTransition(current, target) ==
    <<current, target>> \in {<<"draft", "proposed">>, <<"proposed", "approved">>,
                             <<"draft", "void">>, <<"proposed", "void">>}

\* The checks of erp_transition_status under the lock: the policy is asked
\* only when the target is approved, and it is asked for tx.post.
TransitionStatusCheck(actor, tx_id, target) ==
    IF tx_id \notin DOMAIN transactions
    THEN Err("ERR_VALIDATION_FAIL", <<"tx not found", tx_id>>)
    ELSE IF ~ValidTransition(transactions[tx_id].status, target)
    THEN Err("ERR_INVALID_STATUS", <<transactions[tx_id].status, target>>)
    ELSE IF target = "approved"
    THEN CheckAbac(actor.role, "tx.post", transactions[tx_id].status)
    ELSE Ok

\* erp_transition_status from the lock to its return.
TransitionStatusCommit(p, actor, tx_id, target) ==
    /\ pc[p] = "transition_status"
    /\ target \in TransitionTargets
    /\ LET chk == TransitionStatusCheck(actor, tx_id, target) IN
       /\ transactions' = IF chk.ok THEN [transactions EXCEPT ![tx_id].status = target]
                          ELSE transactions
       /\ status_by' = IF chk.ok THEN [status_by EXCEPT ![tx_id] = actor.role]
                       ELSE status_by
    /\ store_lock' = NoProc
    /\ pc' = [pc EXCEPT ![p] = "idle"]
    /\ UNCHANGED <<lines, invmoves, replay, actor_prev_hash, postings, audit_file,
                   last_chain_hash, loc, commits, last_admission, audit_return>>

\* ---- erp_post_tx

RECURSIVE SumOver(_, _)
\* The sum of f over the records of a finite set.
SumOver(S, f) ==
    IF S = {} THEN 0
    ELSE LET x == CHOOSE y \in S : TRUE IN f[x] + SumOver(S \ {x}, f)

Abs(n) == IF n < 0 THEN -n ELSE n

\* validate_invmove_direction.
ValidateInvmoveDirection(m, effect) == ValidateQtySign(m.qty_delta, effect)

\* A fulfillment check that allows no rounding slack on the movement sum.
FulfillmentErrors_NoTolerance(tx, tx_lines, tx_moves) ==
    IF tx.tx_type \in {"invoice_out", "stock_receipt"}
    THEN IF tx_moves = {}
         THEN {Err("ERR_VALIDATION_FAIL", <<"requires at least one linked inventory move">>)}
         ELSE UNION {
                LET line_moves == {m \in tx_moves : m.tx_line_id = line.line_id}
                    move_sum == SumOver(line_moves, [m \in line_moves |-> Abs(m.qty_delta)])
                IN  IF move_sum > line.qty
                    THEN {Err("ERR_MOVE_QTY_EXCEEDS", <<move_sum, line.qty>>)}
                    ELSE {ValidateInvmoveDirection(m, line.inventory_effect) :
                            m \in {x \in line_moves :
                                     ~ValidateInvmoveDirection(x, line.inventory_effect).ok}}
                : line \in tx_lines}
    ELSE UNION {
           LET parents == {l \in tx_lines : l.line_id = m.tx_line_id} IN
           IF parents = {} THEN {}
           ELSE LET line == CHOOSE l \in parents : TRUE IN
                IF ~ValidateInvmoveDirection(m, line.inventory_effect).ok
                THEN {ValidateInvmoveDirection(m, line.inventory_effect)}
                ELSE IF line.item_id # NoItem /\ m.item_id # line.item_id
                THEN {Err("ERR_ITEM_MISMATCH", <<m.item_id, line.item_id>>)}
                ELSE {}
           : m \in tx_moves}

\* Step 4 of validate_post: the errors it can return, the empty set when the
\* check passes. The lines and moves come out of HashMaps, so which failing
\* line or move is met first is not fixed.
FulfillmentErrors(tx, tx_lines, tx_moves) ==
    IF tx.tx_type \in {"invoice_out", "stock_receipt"}
    THEN IF tx_moves = {}
         THEN {Err("ERR_VALIDATION_FAIL", <<"requires at least one linked inventory move">>)}
         ELSE UNION {
                LET line_moves == {m \in tx_moves : m.tx_line_id = line.line_id}
                    move_sum == SumOver(line_moves, [m \in line_moves |-> Abs(m.qty_delta)])
                IN  IF move_sum > line.qty + ROUNDING_TOLERANCE
                    THEN {Err("ERR_MOVE_QTY_EXCEEDS", <<move_sum, line.qty>>)}
                    ELSE {ValidateInvmoveDirection(m, line.inventory_effect) :
                            m \in {x \in line_moves :
                                     ~ValidateInvmoveDirection(x, line.inventory_effect).ok}}
                : line \in tx_lines}
    ELSE UNION {
           LET parents == {l \in tx_lines : l.line_id = m.tx_line_id} IN
           IF parents = {} THEN {}
           ELSE LET line == CHOOSE l \in parents : TRUE IN
                IF ~ValidateInvmoveDirection(m, line.inventory_effect).ok
                THEN {ValidateInvmoveDirection(m, line.inventory_effect)}
                ELSE IF line.item_id # NoItem /\ m.item_id # line.item_id
                THEN {Err("ERR_ITEM_MISMATCH", <<m.item_id, line.item_id>>)}
                ELSE {}
           : m \in tx_moves}

\* A balance check that already fails at a difference of exactly the tolerance.
ValidateBalance_Strict(posts) ==
    LET idx == 1 .. Len(posts)
        total_debit == SumOver(idx, [i \in idx |-> posts[i].debit_amount])
        total_credit == SumOver(idx, [i \in idx |-> posts[i].credit_amount])
        delta == Abs(total_debit - total_credit)
    IN  IF delta >= ROUNDING_TOLERANCE
        THEN Err("ERR_BALANCE_FAIL", <<total_debit, total_credit, delta>>)
        ELSE Ok

\* ledger::validate_balance.
ValidateBalance(posts) ==
    LET idx == 1 .. Len(posts)
        total_debit == SumOver(idx, [i \in idx |-> posts[i].debit_amount])
        total_credit == SumOver(idx, [i \in idx |-> posts[i].credit_amount])
        delta == Abs(total_debit - total_credit)
    IN  IF delta > ROUNDING_TOLERANCE
        THEN Err("ERR_BALANCE_FAIL", <<total_debit, total_credit, delta>>)
        ELSE Ok

\* A check that takes any atom of type post for the transaction, signed or not.
HasPostApproval_Unsigned(approvals, tx_id) ==
    \E i \in 1 .. Len(approvals) :
        /\ approvals[i].tx_id = tx_id
        /\ approvals[i].approval_type = "post"

\* Step 3 of validate_post: approvals.iter().any(..).
HasPostApproval(approvals, tx_id) ==
    \E i \in 1 .. Len(approvals) :
        /\ approvals[i].tx_id = tx_id
        /\ approvals[i].approval_type = "post"
        /\ approvals[i].signature_ref # ""

\* A validate_post that lets a transaction without postings through.
ValidatePost_EmptyPostingsOk(actor, tx, tx_lines, tx_moves, posts, approvals) ==
    LET abac == CheckAbac(actor.role, "tx.post", tx.status)
        has_post_approval == HasPostApproval(approvals, tx.tx_id)
        ferrs == FulfillmentErrors(tx, tx_lines, tx_moves)
        tx_postings == SelectSeq(posts, LAMBDA q : q.tx_id = tx.tx_id)
    IN  IF ~abac.ok THEN {abac}
        ELSE IF tx.status # "approved"
        THEN {Err("ERR_INVALID_STATUS", <<tx.status, "posted">>)}
        ELSE IF ~has_post_approval
        THEN {Err("ERR_APPROVAL_MISSING", <<tx.tx_id, "post">>)}
        ELSE IF ferrs # {} THEN ferrs
        ELSE IF tx_postings = <<>>
        THEN {Ok}
        ELSE {ValidateBalance(tx_postings)}

\* A validate_post that looks at the status before it asks the policy.
ValidatePost_StatusFirst(actor, tx, tx_lines, tx_moves, posts, approvals) ==
    LET abac == CheckAbac(actor.role, "tx.post", tx.status)
        has_post_approval == HasPostApproval(approvals, tx.tx_id)
        ferrs == FulfillmentErrors(tx, tx_lines, tx_moves)
        tx_postings == SelectSeq(posts, LAMBDA q : q.tx_id = tx.tx_id)
    IN  IF tx.status # "approved"
        THEN {Err("ERR_INVALID_STATUS", <<tx.status, "posted">>)}
        ELSE IF ~abac.ok THEN {abac}
        ELSE IF ~has_post_approval
        THEN {Err("ERR_APPROVAL_MISSING", <<tx.tx_id, "post">>)}
        ELSE IF ferrs # {} THEN ferrs
        ELSE IF tx_postings = <<>>
        THEN {Err("ERR_POSTINGS_MISSING", <<tx.tx_id>>)}
        ELSE {ValidateBalance(tx_postings)}

\* post::validate_post: the results it can return for these arguments.
ValidatePost(actor, tx, tx_lines, tx_moves, posts, approvals) ==
    LET abac == CheckAbac(actor.role, "tx.post", tx.status)
        has_post_approval == HasPostApproval(approvals, tx.tx_id)
        ferrs == FulfillmentErrors(tx, tx_lines, tx_moves)
        tx_postings == SelectSeq(posts, LAMBDA q : q.tx_id = tx.tx_id)
    IN  IF ~abac.ok THEN {abac}
        ELSE IF tx.status # "approved"
        THEN {Err("ERR_INVALID_STATUS", <<tx.status, "posted">>)}
        ELSE IF ~has_post_approval
        THEN {Err("ERR_APPROVAL_MISSING", <<tx.tx_id, "post">>)}
        ELSE IF ferrs # {} THEN ferrs
        ELSE IF tx_postings = <<>>
        THEN {Err("ERR_POSTINGS_MISSING", <<tx.tx_id>>)}
        ELSE {ValidateBalance(tx_postings)}

PostTxLock(p) ==
    /\ LockStore(p, "idle", "post_tx")
    /\ UNCHANGED <<transactions, lines, invmoves, replay, actor_prev_hash, postings,
                   audit_file, last_chain_hash, loc, commits, last_admission, status_by, audit_return>>

\* erp_post_tx from its first lock to the end of validate_post: the snapshot
\* of the transaction, its lines and its moves under the lock, drop(store),
\* then the validation of the snapshot.
PostTxValidate(p, actor, tx_id, approvals, posts) ==
    /\ pc[p] = "post_tx"
    /\ store_lock' = NoProc
    /\ IF tx_id \notin DOMAIN transactions
       THEN /\ pc' = [pc EXCEPT ![p] = "idle"]
            /\ loc' = loc
       ELSE LET tx == transactions[tx_id]
                tx_lines == {lines[l] : l \in {x \in DOMAIN lines : lines[x].tx_id = tx_id}}
                tx_moves == {invmoves[m] : m \in {x \in DOMAIN invmoves : invmoves[x].tx_id = tx_id}}
            IN  \E res \in ValidatePost(actor, tx, tx_lines, tx_moves, posts, approvals) :
                   IF res.ok
                   THEN /\ pc' = [pc EXCEPT ![p] = "post_tx_validated"]
                        /\ loc' = [loc EXCEPT ![p] = [stage |-> "post_tx", role |-> actor.role,
                                                      tx_id |-> tx_id, postings |-> posts]]
                   ELSE /\ pc' = [pc EXCEPT ![p] = "idle"]
                        /\ loc' = loc
    /\ UNCHANGED <<transactions, lines, invmoves, replay, actor_prev_hash, postings,
                   audit_file, last_chain_hash, commits, last_admission, status_by, audit_return>>

PostTxRelock(p) ==
    /\ LockStore(p, "post_tx_validated", "post_tx_write")
    /\ UNCHANGED <<transactions, lines, invmoves, replay, actor_prev_hash, postings,
                   audit_file, last_chain_hash, loc, commits, last_admission, status_by, audit_return>>

RECURSIVE InsertAll(_, _)
\* for p in &postings { store.postings.insert(p.posting_id, p) }
InsertAll(map, posts) ==
    IF posts = <<>> THEN map
    ELSE InsertAll(MapInsert(map, Head(posts).posting_id, Head(posts)), Tail(posts))

\* erp_post_tx under its second lock: the status is set to posted whatever it
\* is by now, and the postings are inserted.
PostTxWrite(p) ==
    /\ pc[p] = "post_tx_write"
    /\ LET tx_id == loc[p].tx_id IN
       /\ transactions' = IF tx_id \in DOMAIN transactions
                          THEN [transactions EXCEPT ![tx_id].status = "posted"]
                          ELSE transactions
       /\ postings' = InsertAll(postings, loc[p].postings)
       /\ status_by' = IF tx_id \in DOMAIN transactions
                       THEN [status_by EXCEPT ![tx_id] = loc[p].role]
                       ELSE status_by
    /\ store_lock' = NoProc
    /\ pc' = [pc EXCEPT ![p] = "idle"]
    /\ loc' = [loc EXCEPT ![p] = NoLoc]
    /\ UNCHANGED <<lines, invmoves, replay, actor_prev_hash, audit_file, last_chain_hash,
                   commits, last_admission, audit_return>>

\* ---- audit_log::append and the write-through upsert

\* hasher.update(env_json); hasher.update(last_hash).
ChainHash(envelope, prev) == Sha256Hex(ToJson(envelope) \o prev)

\* One line of the log file, as verify_chain reads it back: utf8 is whether
\* BufRead::lines can decode it, json whether serde_json::from_str parses it
\* into an ErpAuditEntry, entry what it parses into (or, for a line that does
\* not parse, the entry whose text was written last onto it), newline whether
\* the line ends in "\n".
FileLine(entry) == [utf8 |-> TRUE, json |-> TRUE, newline |-> TRUE, entry |-> entry]

\* What one append can come to: the line and its "\n" written; the open
\* failing; writeln! failing after part of the line reached the file; writeln!
\* failing after the whole line but not its "\n" reached the file.
AppendOutcomes == {"written", "open_failed", "torn", "unterminated"}

\* The outcomes that leave no partial line behind.
CleanOutcomes == {"written", "open_failed"}

\* The file after `ln` has been written at its end (OpenOptions::append): on
\* a file whose last line has no "\n" the text continues that line, which
\* then parses into nothing.
WriteAtEnd(file, ln) ==
    IF Len(file) > 0 /\ ~file[Len(file)].newline
    THEN Append(SubSeq(file, 1, Len(file) - 1),
                [ln EXCEPT !.json = FALSE, !.utf8 = file[Len(file)].utf8])
    ELSE Append(file, ln)

\* An append that writes its line but leaves ERP_LAST_HASH where it was.
AuditAppend_StalePointer(envelope, outcome) ==
    IF outcome = "written"
    THEN /\ audit_file' = WriteAtEnd(audit_file,
                                     FileLine([chain_prev_hash |-> last_chain_hash,
                                               chain_hash |-> ChainHash(envelope, last_chain_hash),
                                               envelope |-> envelope]))
         /\ last_chain_hash' = last_chain_hash
    ELSE UNCHANGED <<audit_file, last_chain_hash>>

\* An append that stores the new hash in ERP_LAST_HASH before it writes.
AuditAppend_PointerFirst(envelope, outcome) ==
    LET chain_hash == ChainHash(envelope, last_chain_hash)
        entry == [chain_prev_hash |-> last_chain_hash, chain_hash |-> chain_hash,
                  envelope |-> envelope]
    IN  CASE outcome = "written" ->
               /\ audit_file' = WriteAtEnd(audit_file, FileLine(entry))
               /\ last_chain_hash' = chain_hash
          [] outcome = "open_failed" ->
               UNCHANGED <<audit_file, last_chain_hash>>
          [] outcome = "torn" ->
               /\ audit_file' = WriteAtEnd(audit_file,
                                           [FileLine(entry) EXCEPT !.json = FALSE,
                                                                   !.newline = FALSE])
               /\ last_chain_hash' = chain_hash
          [] outcome = "unterminated" ->
               /\ audit_file' = WriteAtEnd(audit_file,
                                           [FileLine(entry) EXCEPT !.newline = FALSE])
               /\ last_chain_hash' = chain_hash

\* audit_log::append, all of it under ERP_AUDIT_LOCK. ERP_LAST_HASH is
\* assigned after writeln! has returned Ok, that is after the line and its
\* "\n" have been handed to the file; the `?` on the open and on writeln!
\* return before the assignment. A failing writeln! may have put a prefix of
\* the line in the file.
AuditAppend(envelope, outcome) ==
    LET chain_hash == ChainHash(envelope, last_chain_hash)
        entry == [chain_prev_hash |-> last_chain_hash, chain_hash |-> chain_hash,
                  envelope |-> envelope]
    IN  CASE outcome = "written" ->
               /\ audit_file' = WriteAtEnd(audit_file, FileLine(entry))
               /\ last_chain_hash' = chain_hash
          [] outcome = "open_failed" ->
               UNCHANGED <<audit_file, last_chain_hash>>
          [] outcome = "torn" ->
               /\ audit_file' = WriteAtEnd(audit_file,
                                           [FileLine(entry) EXCEPT !.json = FALSE,
                                                                   !.newline = FALSE])
               /\ UNCHANGED last_chain_hash
          [] outcome = "unterminated" ->
               /\ audit_file' = WriteAtEnd(audit_file,
                                           [FileLine(entry) EXCEPT !.newline = FALSE])
               /\ UNCHANGED last_chain_hash

RECURSIVE VerifyChainFrom(_, _, _)
\* The loop of verify_chain from line i on, prev being the hash carried so
\* far. reader.lines().flatten() drops a line that is not valid UTF-8 (the
\* Err item of the iterator) and goes on with the next one.
VerifyChainFrom(file, i, prev) ==
    IF i > Len(file) THEN TRUE
    ELSE IF ~file[i].utf8 THEN VerifyChainFrom(file, i + 1, prev)
    ELSE IF ~file[i].json THEN FALSE
    ELSE IF file[i].entry.chain_prev_hash # prev THEN FALSE
    ELSE IF ChainHash(file[i].entry.envelope, prev) # file[i].entry.chain_hash THEN FALSE
    ELSE VerifyChainFrom(file, i + 1, file[i].entry.chain_hash)

\* audit_log::verify_chain; a file that cannot be opened reads as intact, as
\* the empty file does.
VerifyChain(file) == VerifyChainFrom(file, 1, "erp_genesis")

\* A command that lets a failed append fail the call.
AuditTailResult_Propagates(outcome) ==
    IF outcome = "written" THEN Ok ELSE Err("ERR_IO", <<"audit append failed">>)

\* What create_tx, add_line and create_invmove return after the append:
\* `let _ = audit_log::append(&envelope)` drops its result, Ok(..) follows.
AuditTailResult(outcome) == Ok

\* The tail of create_tx, add_line and create_invmove after drop(store):
\* audit_log::append(&envelope), then the SQLite upsert (a best-effort copy
\* outside the model), then the return.
AuditAndReturn(p, outcome) ==
    /\ pc[p] = "audit"
    /\ AuditAppend(loc[p].envelope, outcome)
    /\ audit_return' = AuditTailResult(outcome)
    /\ pc' = [pc EXCEPT ![p] = "idle"]
    /\ loc' = [loc EXCEPT ![p] = NoLoc]
    /\ UNCHANGED <<transactions, lines, invmoves, replay, actor_prev_hash, postings,
                   store_lock, commits, last_admission, status_by>>

\* ---- the same tail, lock by lock

\* What the tail of a command leaves alone in the store.
tail_frame ==
    <<transactions, lines, invmoves, replay, actor_prev_hash, postings, store_lock,
      commits, last_admission, status_by>>

\* append: `let _lock = ERP_AUDIT_LOCK.lock().unwrap()`, blocking until the
\* mutex is free.
AppendLockAudit(p) ==
    /\ pc[p] = "audit"
    /\ audit_lock = NoProc
    /\ audit_lock' = p
    /\ pc' = [pc EXCEPT ![p] = "append_audit_locked"]
    /\ UNCHANGED <<tail_frame, last_hash_lock, db_lock, audit_file, last_chain_hash,
                   loc, audit_return>>

\* append: `let mut last_hash = ERP_LAST_HASH.lock().unwrap()`, taken while
\* ERP_AUDIT_LOCK is held.
AppendLockHash(p) ==
    /\ pc[p] = "append_audit_locked"
    /\ last_hash_lock = NoProc
    /\ last_hash_lock' = p
    /\ pc' = [pc EXCEPT ![p] = "append_locked"]
    /\ UNCHANGED <<tail_frame, audit_lock, db_lock, audit_file, last_chain_hash,
                   loc, audit_return>>

\* An append whose `?` returns leave ERP_AUDIT_LOCK locked.
AppendWrite_LeaksOnError(p, outcome) ==
    /\ pc[p] = "append_locked"
    /\ AuditAppend(loc[p].envelope, outcome)
    /\ audit_return' = AuditTailResult(outcome)
    /\ audit_lock' = IF outcome = "written" THEN NoProc ELSE audit_lock
    /\ last_hash_lock' = NoProc
    /\ pc' = [pc EXCEPT ![p] = "db"]
    /\ UNCHANGED <<tail_frame, db_lock, loc>>

\* append from the hashing to its return: both guards are locals of append
\* and are dropped when it returns, through `?` or through Ok(()).
AppendWrite(p, outcome) ==
    /\ pc[p] = "append_locked"
    /\ AuditAppend(loc[p].envelope, outcome)
    /\ audit_return' = AuditTailResult(outcome)
    /\ audit_lock' = NoProc
    /\ last_hash_lock' = NoProc
    /\ pc' = [pc EXCEPT ![p] = "db"]
    /\ UNCHANGED <<tail_frame, db_lock, loc>>

\* `if let Ok(db_guard) = ERP_DB.lock()`, blocking until the mutex is free.
DbLock(p) ==
    /\ pc[p] = "db"
    /\ db_lock = NoProc
    /\ db_lock' = p
    /\ pc' = [pc EXCEPT ![p] = "db_locked"]
    /\ UNCHANGED <<tail_frame, audit_lock, last_hash_lock, audit_file, last_chain_hash,
                   loc, audit_return>>

\* The upsert (a best-effort copy outside the model), the end of the
\* `if let` block that drops db_guard, and the return of the command.
DbUpsertReturn(p) ==
    /\ pc[p] = "db_locked"
    /\ db_lock' = NoProc
    /\ pc' = [pc EXCEPT ![p] = "idle"]
    /\ loc' = [loc EXCEPT ![p] = NoLoc]
    /\ UNCHANGED <<tail_frame, audit_lock, last_hash_lock, audit_file, last_chain_hash,
                   audit_return>>

\* ---- erp_time_travel

\* audit_log::read_log_bounded: the lines that decode and parse, with
\* issued_at_ms in [from_ms, to_ms].
ReadLogBounded(file, from_ms, to_ms) ==
    LET kept == SelectSeq(file, LAMBDA ln :
                    /\ ln.utf8 /\ ln.json
                    /\ ln.entry.envelope.issued_at_ms >= from_ms
                    /\ ln.entry.envelope.issued_at_ms <= to_ms)
    IN  [i \in 1 .. Len(kept) |-> kept[i].entry]

\* The MapSet ops of the entries on a "tx:<id>:hdr" fragment, each with the
\* id between the colons (parts[1]); ids are those of the store's
\* transactions, the only ones a header fragment is ever made for.
HeaderOps(entries) ==
    LET ops == UNION {{entries[i].envelope.ops[j] :
                         j \in 1 .. Len(entries[i].envelope.ops)} :
                      i \in 1 .. Len(entries)}
    IN  {x \in (DOMAIN transactions) \X ops :
            x[2].kind = "map_set" /\ x[2].fragment_id = TxHdrId(x[1])}

\* erp_time_travel(target_ts_ms): the snapshot it returns.
TimeTravel(file, target_ts_ms) ==
    LET entries == ReadLogBounded(file, 0, target_ts_ms)
        hdr == HeaderOps(entries)
        tx_ids == {x[1] : x \in hdr}
        posted_ids == {x[1] : x \in {y \in hdr : y[2].key = "status" /\ y[2].value = "posted"}}
    IN  [as_of_ms |-> target_ts_ms,
         tx_count |-> Cardinality(tx_ids),
         posted_count |-> Cardinality(posted_ids),
         posted_ids |-> posted_ids,
         mutation_count |-> Len(entries),
         chain_intact |-> VerifyChain(file)]

\* ---- validate_post and validate_balance called directly

NoPostCall == [fn |-> "none"]

\* One call of validate_post, with one of the results it can give.
ValidatePostCall(actor, tx, tx_lines, tx_moves, posts, approvals) ==
    /\ post_last = NoPostCall
    /\ \E res \in ValidatePost(actor, tx, tx_lines, tx_moves, posts, approvals) :
           post_last' = [fn |-> "validate_post", actor |-> actor, tx |-> tx,
                         lines |-> tx_lines, invmoves |-> tx_moves, postings |-> posts,
                         approvals |-> approvals, res |-> res]

\* One call of validate_balance.
ValidateBalanceCall(posts) ==
    /\ post_last = NoPostCall
    /\ post_last' = [fn |-> "validate_balance", postings |-> posts,
                     res |-> ValidateBalance(posts)]

\* ---- ledger::generate_postings

\* The ten TxType variants, by their wire names.
LedgerTxTypes == {"invoice_out", "invoice_in", "payment_in", "payment_out", "stock_receipt",
                  "stock_issue", "stock_adjust", "journal", "credit_note", "debit_note"}

\* Option<String> account ids: NoAccount is None.
NoAccount == "none"

\* round2 of the fraction n / d, in hundredths when n / d is in hundredths:
\* f64::round, halves away from zero.
RoundDiv(n, d) ==
    IF n >= 0 THEN (2 * n + d) \div (2 * d) ELSE -((2 * (-n) + d) \div (2 * d))

\* Quantities, prices and tax rates are held in hundredths, so qty *
\* unit_price is in ten-thousandths and qty * unit_price * tax_rate in
\* millionths; amounts come out in hundredths.
\* line_totals: (round2 of the net sum, round2 of the tax sum).
LineTotals(tx_lines) ==
    LET idx == 1 .. Len(tx_lines)
        net == SumOver(idx, [i \in idx |-> tx_lines[i].qty * tx_lines[i].unit_price])
        tax == SumOver(idx, [i \in idx |->
                   tx_lines[i].qty * tx_lines[i].unit_price * tx_lines[i].tax_rate])
    IN  [line_total |-> RoundDiv(net, 100), tax_total |-> RoundDiv(tax, 10000)]

\* A cost estimate taken over every line, whatever its inventory effect.
EstimateCogs_AllLines(tx_lines) ==
    LET idx == 1 .. Len(tx_lines) IN
    RoundDiv(SumOver(idx, [i \in idx |-> tx_lines[i].qty * tx_lines[i].unit_price]), 100)

\* estimate_cogs: the invoiced amount of the lines whose effect is decrease.
EstimateCogs(tx_lines) ==
    LET idx == {i \in 1 .. Len(tx_lines) : tx_lines[i].inventory_effect = "decrease"} IN
    RoundDiv(SumOver(idx, [i \in idx |-> tx_lines[i].qty * tx_lines[i].unit_price]), 100)

\* draft_posting; the amounts it is given are whole hundredths already, which
\* round2 leaves as they are. The posting id is filled in by NumberPostings.
DraftPosting(tx_id, account_id, debit, credit, desc) ==
    [posting_id |-> "posting:", tx_id |-> tx_id, account_id |-> account_id,
     debit_amount |-> debit, credit_amount |-> credit, currency |-> "AUD",
     description |-> desc, status |-> "draft", generated_by |-> "engine"]

\* Uuid::new_v4() in draft_posting: every posting of the list gets an id of
\* its own.
NumberPostings(posts) ==
    [i \in 1 .. Len(posts) |-> [posts[i] EXCEPT !.posting_id = "posting:" \o ToString(i)]]

RECURSIVE JournalPostings(_, _)
\* The loop of the Journal arm: a line without an account is passed over.
JournalPostings(tx_id, tx_lines) ==
    IF tx_lines = <<>> THEN <<>>
    ELSE LET line == Head(tx_lines)
             amount == RoundDiv(Abs(line.qty * line.unit_price), 100)
             rest == JournalPostings(tx_id, Tail(tx_lines))
         IN  IF line.account_id = NoAccount THEN rest
             ELSE IF line.unit_price >= 0
             THEN <<DraftPosting(tx_id, line.account_id, amount, 0, line.description)>> \o rest
             ELSE <<DraftPosting(tx_id, line.account_id, 0, amount, line.description)>> \o rest

\* The match of generate_postings: the postings pushed for the type.
PostingTemplate(tx_type, tx_id, tx_lines, has_invmoves) ==
    LET line_total == LineTotals(tx_lines).line_total
        tax_total == LineTotals(tx_lines).tax_total
        gross_total == line_total + tax_total
        cogs == EstimateCogs(tx_lines)
        debit_account == IF has_invmoves THEN "inventory_asset" ELSE "expense"
    IN  CASE tx_type = "invoice_out" ->
               <<DraftPosting(tx_id, "accounts_receivable", gross_total, 0, "AR - Invoice out"),
                 DraftPosting(tx_id, "revenue", 0, line_total, "Revenue - Invoice out")>>
               \o (IF tax_total > 0
                   THEN <<DraftPosting(tx_id, "tax_payable", 0, tax_total, "GST/Tax payable")>>
                   ELSE <<>>)
               \o (IF has_invmoves /\ cogs > 0
                   THEN <<DraftPosting(tx_id, "cogs", cogs, 0, "COGS - shipped"),
                          DraftPosting(tx_id, "inventory_asset", 0, cogs,
                                       "Inventory relief - shipped")>>
                   ELSE <<>>)
          [] tx_type = "invoice_in" ->
               <<DraftPosting(tx_id, debit_account, line_total, 0, "Purchase - Invoice in")>>
               \o (IF tax_total > 0
                   THEN <<DraftPosting(tx_id, "tax_receivable", tax_total, 0,
                                       "GST input tax credit")>>
                   ELSE <<>>)
               \o <<DraftPosting(tx_id, "accounts_payable", 0, gross_total, "AP - Invoice in")>>
          [] tx_type = "payment_in" ->
               <<DraftPosting(tx_id, "bank", gross_total, 0, "Payment received"),
                 DraftPosting(tx_id, "accounts_receivable", 0, gross_total, "AR settlement")>>
          [] tx_type = "payment_out" ->
               <<DraftPosting(tx_id, "accounts_payable", gross_total, 0, "AP payment"),
                 DraftPosting(tx_id, "bank", 0, gross_total, "Bank payment")>>
          [] tx_type = "stock_receipt" ->
               <<DraftPosting(tx_id, "inventory_asset", line_total, 0, "Stock received"),
                 DraftPosting(tx_id, "goods_received_not_invoiced", 0, line_total, "GRNI")>>
          [] tx_type = "stock_issue" ->
               <<DraftPosting(tx_id, "cogs", line_total, 0, "Stock issued"),
                 DraftPosting(tx_id, "inventory_asset", 0, line_total, "Inventory relief")>>
          [] tx_type = "stock_adjust" ->
               IF line_total >= 0
               THEN <<DraftPosting(tx_id, "inventory_asset", line_total, 0,
                                   "Stock adjustment (increase)"),
                      DraftPosting(tx_id, "stock_adjustment_gain", 0, line_total,
                                   "Adjustment gain")>>
               ELSE <<DraftPosting(tx_id, "stock_adjustment_loss", Abs(line_total), 0,
                                   "Adjustment loss"),
                      DraftPosting(tx_id, "inventory_asset", 0, Abs(line_total),
                                   "Stock adjustment (decrease)")>>
          [] tx_type = "journal" -> JournalPostings(tx_id, tx_lines)
          [] tx_type = "credit_note" ->
               <<DraftPosting(tx_id, "accounts_receivable", 0, gross_total, "AR credit"),
                 DraftPosting(tx_id, "revenue", line_total, 0, "Revenue reversal")>>
               \o (IF tax_total > 0
                   THEN <<DraftPosting(tx_id, "tax_payable", tax_total, 0, "Tax return")>>
                   ELSE <<>>)
          [] tx_type = "debit_note" ->
               <<DraftPosting(tx_id, debit_account, 0, line_total, "Debit note reversal"),
                 DraftPosting(tx_id, "accounts_payable", gross_total, 0, "AP debit note")>>

\* ledger::generate_postings: the template of the type, then validate_balance
\* on all of it; the postings are returned only when that passes.
GeneratePostings(tx_type, tx_id, tx_lines, has_invmoves) ==
    LET posts == NumberPostings(PostingTemplate(tx_type, tx_id, tx_lines, has_invmoves))
        balance == ValidateBalance(posts)
    IN  IF balance.ok THEN [res |-> Ok, postings |-> posts]
        ELSE [res |-> balance, postings |-> <<>>]

\* One call of generate_postings.
GeneratePostingsCall(tx_type, tx_lines, has_invmoves) ==
    /\ post_last = NoPostCall
    /\ LET out == GeneratePostings(tx_type, 1, tx_lines, has_invmoves) IN
       post_last' = [fn |-> "generate_postings", tx_type |-> tx_type, lines |-> tx_lines,
                     has_invmoves |-> has_invmoves, res |-> out.res,
                     postings |-> out.postings]

\* ---- the audit log on its own: append, an edit of the file, verify_chain

NotChecked == [called |-> FALSE]
NoReturn == [ok |-> FALSE, code |-> "NONE", detail |-> <<>>]
audit_vars == <<audit_changed, chain_res>>

\* A direct call of audit_log::append.
AppendCall(envelope, outcome) ==
    /\ AuditAppend(envelope, outcome)
    /\ chain_res' = NotChecked
    /\ UNCHANGED audit_changed

\* The ways somebody with access to the file can alter one persisted line.
FileEdits == {"envelope", "chain_hash", "chain_prev_hash", "not_json", "not_utf8"}

\* Line `ln` after the edit: another lamport in the envelope, another hash
\* string, text that is no ErpAuditEntry, or bytes that are no UTF-8.
EditedLine(ln, how) ==
    CASE how = "envelope" ->
           [ln EXCEPT !.entry.envelope.lamport = @ + 1]
      [] how = "chain_hash" ->
           [ln EXCEPT !.entry.chain_hash = "0" \o @]
      [] how = "chain_prev_hash" ->
           [ln EXCEPT !.entry.chain_prev_hash = "0" \o @]
      [] how = "not_json" -> [ln EXCEPT !.json = FALSE]
      [] how = "not_utf8" -> [ln EXCEPT !.utf8 = FALSE, !.json = FALSE]

\* One line of the file is altered outside the program; ERP_LAST_HASH, in
\* memory, is not.
FileEdit(i, how) ==
    /\ audit_changed = 0
    /\ i \in 1 .. Len(audit_file)
    /\ audit_file' = [audit_file EXCEPT ![i] = EditedLine(@, how)]
    /\ audit_changed' = i
    /\ chain_res' = NotChecked
    /\ UNCHANGED last_chain_hash

\* A call of verify_chain().
VerifyChainCall ==
    /\ chain_res' = [called |-> TRUE, intact |-> VerifyChain(audit_file)]
    /\ UNCHANGED <<audit_file, last_chain_hash, audit_changed>>

\* ErpStore::new(), the lazy statics and idle callers.
StoreInit ==
    /\ transactions = EmptyMap
    /\ lines = EmptyMap
    /\ invmoves = EmptyMap
    /\ actor_prev_hash = EmptyMap
    /\ postings = EmptyMap
    /\ store_lock = NoProc
    /\ audit_lock = NoProc
    /\ last_hash_lock = NoProc
    /\ db_lock = NoProc
    /\ audit_file = <<>>
    /\ last_chain_hash = "erp_genesis"
    /\ pc = [p \in Procs |-> "idle"]
    /\ loc = [p \in Procs |-> NoLoc]
    /\ commits = <<>>
    /\ last_admission = NoAdmission
    /\ status_by = EmptyMap
    /\ audit_return = NoReturn
    /\ audit_changed = 0
    /\ chain_res = NotChecked
    /\ post_last = NoPostCall

\* The process ends and starts again: every lazy static is built anew
\* (ERP_STORE from ErpStore::new(), ERP_LAST_HASH from "erp_genesis"), and no
\* code reads the log file to set ERP_LAST_HASH; the file at audit_log_path()
\* stays as it was, and append opens it with create(true).append(true).
ProcessRestart ==
    /\ replay' = ReplayGuardNew
    /\ transactions' = EmptyMap
    /\ lines' = EmptyMap
    /\ invmoves' = EmptyMap
    /\ actor_prev_hash' = EmptyMap
    /\ postings' = EmptyMap
    /\ store_lock' = NoProc
    /\ audit_lock' = NoProc
    /\ last_hash_lock' = NoProc
    /\ db_lock' = NoProc
    /\ last_chain_hash' = "erp_genesis"
    /\ pc' = [p \in Procs |-> "idle"]
    /\ loc' = [p \in Procs |-> NoLoc]
    /\ status_by' = EmptyMap
    /\ chain_res' = NotChecked
    /\ UNCHANGED <<audit_file, audit_changed, commits, last_admission, audit_return>>

\* ---------------------------------------------------------------- specifications

vars == <<replay, rg_last, rg_rewound, sm_log, abac_last, env_orig, env, env_field, env_res,
          transactions, lines, invmoves, actor_prev_hash, postings, store_lock,
          audit_lock, last_hash_lock, db_lock,
          audit_file, last_chain_hash, pc, loc, commits, last_admission, status_by,
          audit_return, audit_changed, chain_res, post_last>>

InitReplay == GuardInit /\ StatusInit /\ AbacInit /\ EnvInit /\ StoreInit

NextReplay ==
    \E a \in PubKeys, m \in MutationIds, l \in Lamports :
        GuardCall(a, m, l) /\ UNCHANGED <<sm_log, abac_last, env_vars, store_vars, audit_vars, post_last>>

InitStatus == GuardInit /\ StatusInit /\ AbacInit /\ EnvInit /\ StoreInit

NextStatus ==
    \E c \in Statuses, t \in Statuses :
        StatusCall(c, t) /\ UNCHANGED <<guard_vars, abac_last, env_vars, store_vars, audit_vars, post_last>>

SpecStatus == InitStatus /\ [][NextStatus]_vars

InitAbac == GuardInit /\ StatusInit /\ AbacInit /\ EnvInit /\ StoreInit

NextAbac ==
    \E role \in Roles, action \in Actions, st \in OptStatuses :
        AbacCall(role, action, st) /\ UNCHANGED <<guard_vars, sm_log, env_vars, store_vars, audit_vars, post_last>>

SpecAbac == InitAbac /\ [][NextAbac]_vars

InitEnvelope == GuardInit /\ StatusInit /\ AbacInit /\ EnvInit /\ StoreInit

NextEnvelope ==
    \/ \E pk \in EnvPubKeys, l \in Lamports, o \in EnvOps, ph \in EnvPrevHashes, t \in Times :
           EnvSign(pk, l, o, ph, t) /\ UNCHANGED <<guard_vars, sm_log, abac_last, store_vars, audit_vars, post_last>>
    \/ \E f \in TamperFields :
           EnvTamper(f) /\ UNCHANGED <<guard_vars, sm_log, abac_last, store_vars, audit_vars, post_last>>
    \/ EnvVerify /\ UNCHANGED <<guard_vars, sm_log, abac_last, store_vars, audit_vars, post_last>>

SpecEnvelope == InitEnvelope /\ [][NextEnvelope]_vars

\* The engine's three mutating commands, called from concurrent threads.
EngineRoles == {"staff"}
EngineActors == {Actor(pk, r, l) : pk \in PubKeys, r \in EngineRoles, l \in Lamports}
StoreIds == {1, 2}
EngineTxTypes == {"journal", "bogus"}
EngineLineReqs ==
    {[tx_id |-> t, item_id |-> "widget", qty |-> 200, unit_price |-> 100,
      inventory_effect |-> e] : t \in StoreIds, e \in {"decrease", "increase"}}
EngineMoveReqs ==
    {[tx_id |-> t, tx_line_id |-> l, item_id |-> i, qty_delta |-> q] :
        t \in StoreIds, l \in StoreIds, i \in {"widget", "gadget"}, q \in {-300, -100, 100}}
io_locks == <<audit_lock, last_hash_lock, db_lock>>
other_vars == <<rg_last, rg_rewound, sm_log, abac_last, env_vars, audit_vars, post_last,
                io_locks>>

InitEngine == GuardInit /\ StatusInit /\ AbacInit /\ EnvInit /\ StoreInit

NextEngine ==
    \/ \E p \in Procs, a \in EngineActors, ty \in EngineTxTypes :
           CreateTxRejected(p, a, ty) /\ UNCHANGED other_vars
    \/ /\ Len(commits) < MaxCommits
       /\ \E p \in Procs : CreateTxLock(p) /\ UNCHANGED other_vars
    \/ \E p \in Procs, a \in EngineActors, ty \in EngineTxTypes :
           CreateTxCommit(p, a, ty, 0) /\ UNCHANGED other_vars
    \/ /\ Len(commits) < MaxCommits
       /\ \E p \in Procs : AddLineLock(p) /\ UNCHANGED other_vars
    \/ \E p \in Procs, a \in EngineActors, req \in EngineLineReqs :
           AddLineCommit(p, a, req, 0) /\ UNCHANGED other_vars
    \/ /\ Len(commits) < MaxCommits
       /\ \E p \in Procs : CreateInvMoveLock(p) /\ UNCHANGED other_vars
    \/ \E p \in Procs, a \in EngineActors, req \in EngineMoveReqs :
           CreateInvMoveCommit(p, a, req, 0) /\ UNCHANGED other_vars
    \/ \E p \in Procs, outcome \in CleanOutcomes :
           AuditAndReturn(p, outcome) /\ UNCHANGED other_vars

SpecEngine == InitEngine /\ [][NextEngine]_vars

\* The five commands that write the store, called from concurrent threads by
\* one signing identity under every role.
StoreActors == {Actor("pk1", r, l) : r \in {"staff"}, l \in Lamports}
StoreCallers == {Actor("pk1", r, 0) : r \in Roles}
StoreTxTypes == {"journal", "bogus"}
StoreLineReqs ==
    {[tx_id |-> t, item_id |-> "widget", qty |-> 200, unit_price |-> 100,
      inventory_effect |-> e] : t \in {1}, e \in {"decrease"}}
StoreMoveReqs ==
    {[tx_id |-> 1, tx_line_id |-> 1, item_id |-> "widget", qty_delta |-> q] : q \in {-100, 100}}
StoreTargets == TransitionTargets \cup {"posted"}
StoreApprovals ==
    {<<>>, <<[tx_id |-> 1, approval_type |-> "post", signature_ref |-> "sig1"]>>}
Posting(id, tx_id, debit, credit) ==
    [posting_id |-> id, tx_id |-> tx_id, debit_amount |-> debit, credit_amount |-> credit,
     status |-> "draft"]
StorePostings ==
    {<<>>, <<Posting(1, 1, 20000, 0), Posting(2, 1, 0, 20000)>>, <<Posting(1, 1, 20000, 0)>>,
     <<Posting(1, 1, 20000, 0), Posting(1, 1, 0, 20000)>>}

InitStore == GuardInit /\ StatusInit /\ AbacInit /\ EnvInit /\ StoreInit

NextStore ==
    \/ \E p \in Procs, a \in StoreActors, ty \in StoreTxTypes :
           CreateTxRejected(p, a, ty) /\ UNCHANGED other_vars
    \/ /\ Len(commits) < MaxCommits
       /\ \E p \in Procs : CreateTxLock(p) /\ UNCHANGED other_vars
    \/ \E p \in Procs, a \in StoreActors, ty \in StoreTxTypes :
           CreateTxCommit(p, a, ty, 0) /\ UNCHANGED other_vars
    \/ /\ Len(commits) < MaxCommits
       /\ \E p \in Procs : AddLineLock(p) /\ UNCHANGED other_vars
    \/ \E p \in Procs, a \in StoreActors, req \in StoreLineReqs :
           AddLineCommit(p, a, req, 0) /\ UNCHANGED other_vars
    \/ /\ Len(commits) < MaxCommits
       /\ \E p \in Procs : CreateInvMoveLock(p) /\ UNCHANGED other_vars
    \/ \E p \in Procs, a \in StoreActors, req \in StoreMoveReqs :
           CreateInvMoveCommit(p, a, req, 0) /\ UNCHANGED other_vars
    \/ \E p \in Procs, outcome \in CleanOutcomes :
           AuditAndReturn(p, outcome) /\ UNCHANGED other_vars
    \/ \E p \in Procs, a \in StoreCallers, t \in {1}, target \in StoreTargets :
           TransitionStatusRejected(p, a, t, target) /\ UNCHANGED other_vars
    \/ \E p \in Procs : TransitionStatusLock(p) /\ UNCHANGED other_vars
    \/ \E p \in Procs, a \in StoreCallers, t \in {1}, target \in StoreTargets :
           TransitionStatusCommit(p, a, t, target) /\ UNCHANGED other_vars
    \/ \E p \in Procs : PostTxLock(p) /\ UNCHANGED other_vars
    \/ \E p \in Procs, a \in StoreCallers, t \in {1}, ap \in StoreApprovals,
          posts \in StorePostings :
           PostTxValidate(p, a, t, ap, posts) /\ UNCHANGED other_vars
    \/ \E p \in Procs : PostTxRelock(p) /\ UNCHANGED other_vars
    \/ \E p \in Procs : PostTxWrite(p) /\ UNCHANGED other_vars

SpecStore == InitStore /\ [][NextStore]_vars

\* One caller at a time working on two transactions: lines and movements are
\* written by staff under both signing identities, and finance moves the
\* status of the first transaction and posts it.
LinesProcs == {"p1"}
LinesActors == {Actor(pk, "staff", l) : pk \in PubKeys, l \in Lamports}
LinesCallers == {Actor("pk1", "finance", 0)}
LinesLineReqs ==
    {[tx_id |-> t, item_id |-> "widget", qty |-> 200, unit_price |-> 100,
      inventory_effect |-> "decrease"] : t \in StoreIds}
LinesMoveReqs ==
    {[tx_id |-> t, tx_line_id |-> 1, item_id |-> i, qty_delta |-> q] :
        t \in StoreIds, i \in {"widget", "gadget"}, q \in {-100, 100}}
LinesApprovals(t) == <<[tx_id |-> t, approval_type |-> "post", signature_ref |-> "sig1"]>>
LinesPostings(t) == <<Posting(1, t, 20000, 0), Posting(2, t, 0, 20000)>>

InitLines == GuardInit /\ StatusInit /\ AbacInit /\ EnvInit /\ StoreInit

NextLines ==
    \/ /\ Len(commits) < MaxLineCommits
       /\ \E p \in LinesProcs : CreateTxLock(p) /\ UNCHANGED other_vars
    \/ \E p \in LinesProcs, a \in LinesActors :
           CreateTxCommit(p, a, "journal", 0) /\ UNCHANGED other_vars
    \/ /\ Len(commits) < MaxLineCommits
       /\ \E p \in LinesProcs : AddLineLock(p) /\ UNCHANGED other_vars
    \/ \E p \in LinesProcs, a \in LinesActors, req \in LinesLineReqs :
           AddLineCommit(p, a, req, 0) /\ UNCHANGED other_vars
    \/ /\ Len(commits) < MaxLineCommits
       /\ \E p \in LinesProcs : CreateInvMoveLock(p) /\ UNCHANGED other_vars
    \/ \E p \in LinesProcs, a \in LinesActors, req \in LinesMoveReqs :
           CreateInvMoveCommit(p, a, req, 0) /\ UNCHANGED other_vars
    \/ \E p \in LinesProcs : AuditAndReturn(p, "written") /\ UNCHANGED other_vars
    \/ \E p \in LinesProcs : TransitionStatusLock(p) /\ UNCHANGED other_vars
    \/ \E p \in LinesProcs, a \in LinesCallers, t \in {1},
          target \in {"proposed", "approved"} :
           TransitionStatusCommit(p, a, t, target) /\ UNCHANGED other_vars
    \/ \E p \in LinesProcs : PostTxLock(p) /\ UNCHANGED other_vars
    \/ \E p \in LinesProcs, a \in LinesCallers, t \in {1} :
           PostTxValidate(p, a, t, LinesApprovals(t), LinesPostings(t))
           /\ UNCHANGED other_vars
    \/ \E p \in LinesProcs : PostTxRelock(p) /\ UNCHANGED other_vars
    \/ \E p \in LinesProcs : PostTxWrite(p) /\ UNCHANGED other_vars

SpecLines == InitLines /\ [][NextLines]_vars

SpecReplay == InitReplay /\ [][NextReplay]_vars

\* The audit log called directly, with somebody editing the file in between.
AuditEnvelopes ==
    {SignEnvelope(m, Actor(pk, "staff", l), <<>>, EnvPolicy, "genesis", 0) :
        m \in {1}, pk \in PubKeys, l \in Lamports}
engine_vars == <<transactions, lines, invmoves, actor_prev_hash, postings, store_lock,
                 audit_lock, last_hash_lock, db_lock,
                 pc, loc, commits, last_admission, status_by, audit_return>>
audit_frame == <<guard_vars, sm_log, abac_last, env_vars, engine_vars, post_last>>

InitAudit == GuardInit /\ StatusInit /\ AbacInit /\ EnvInit /\ StoreInit

NextAudit ==
    \/ \E e \in AuditEnvelopes, outcome \in AppendOutcomes :
           /\ IF Len(audit_file) < MaxEntries THEN TRUE
              ELSE ~audit_file[Len(audit_file)].newline
           /\ AppendCall(e, outcome) /\ UNCHANGED audit_frame
    \/ \E i \in 1 .. MaxEntries, how \in FileEdits :
           FileEdit(i, how) /\ UNCHANGED audit_frame
    \/ VerifyChainCall /\ UNCHANGED audit_frame

SpecAudit == InitAudit /\ [][NextAudit]_vars

\* The audit log across restarts of the process: appends that write their
\* whole line or nothing, restarts, verify_chain.
restart_frame == <<rg_last, rg_rewound, sm_log, abac_last, env_vars, post_last>>

InitRestart == GuardInit /\ StatusInit /\ AbacInit /\ EnvInit /\ StoreInit

NextRestart ==
    \/ \E e \in AuditEnvelopes, outcome \in CleanOutcomes :
           /\ Len(audit_file) < MaxEntries + 1
           /\ AppendCall(e, outcome) /\ UNCHANGED audit_frame
    \/ ProcessRestart /\ UNCHANGED restart_frame
    \/ VerifyChainCall /\ UNCHANGED audit_frame

SpecRestart == InitRestart /\ [][NextRestart]_vars

\* The five commands called from concurrent threads, with every lock they
\* take as a step of its own: one finance identity writes transactions and
\* lines and moves the status, another writes the movements.
LockActors == {Actor("pk1", "finance", l) : l \in Lamports}
LockMovers == {Actor("pk2", "finance", 0)}
LockLineReq ==
    [tx_id |-> 1, item_id |-> "widget", qty |-> 200, unit_price |-> 100,
     inventory_effect |-> "decrease"]
LockMoveReq == [tx_id |-> 1, tx_line_id |-> 1, item_id |-> "widget", qty_delta |-> -100]
lock_frame == <<rg_last, rg_rewound, sm_log, abac_last, env_vars, audit_vars, post_last>>

InitLocks == GuardInit /\ StatusInit /\ AbacInit /\ EnvInit /\ StoreInit

\* A call of p enters its first critical section.
Enter(p) ==
    \/ /\ Len(commits) < MaxLockCommits
       /\ CreateTxLock(p) /\ UNCHANGED other_vars
    \/ /\ Len(commits) < MaxLockCommits
       /\ AddLineLock(p) /\ UNCHANGED other_vars
    \/ /\ Len(commits) < MaxLockCommits
       /\ CreateInvMoveLock(p) /\ UNCHANGED other_vars
    \/ TransitionStatusLock(p) /\ UNCHANGED other_vars
    \/ PostTxLock(p) /\ UNCHANGED other_vars

\* A step of p's call that waits for nothing.
Proceed(p) ==
    \/ \E a \in LockActors : CreateTxCommit(p, a, "journal", 0) /\ UNCHANGED other_vars
    \/ \E a \in LockActors : AddLineCommit(p, a, LockLineReq, 0) /\ UNCHANGED other_vars
    \/ \E a \in LockMovers : CreateInvMoveCommit(p, a, LockMoveReq, 0) /\ UNCHANGED other_vars
    \/ \E a \in LockActors, target \in {"proposed", "approved"} :
           TransitionStatusCommit(p, a, 1, target) /\ UNCHANGED other_vars
    \/ \E a \in LockActors :
           PostTxValidate(p, a, 1, LinesApprovals(1), LinesPostings(1)) /\ UNCHANGED other_vars
    \/ PostTxWrite(p) /\ UNCHANGED other_vars
    \/ \E outcome \in CleanOutcomes : AppendWrite(p, outcome) /\ UNCHANGED lock_frame
    \/ DbUpsertReturn(p) /\ UNCHANGED lock_frame

\* A step in which p's call, already under way, gets a mutex it waited for.
Acquire(p) ==
    \/ PostTxRelock(p) /\ UNCHANGED other_vars
    \/ AppendLockAudit(p) /\ UNCHANGED lock_frame
    \/ AppendLockHash(p) /\ UNCHANGED lock_frame
    \/ DbLock(p) /\ UNCHANGED lock_frame

NextLocks == \E p \in Procs : Enter(p) \/ Proceed(p) \/ Acquire(p)

\* A fair scheduler: a thread that can run does run, and a thread waiting
\* for a mutex that is free again and again gets it.
SpecLocks ==
    /\ InitLocks /\ [][NextLocks]_vars
    /\ \A p \in Procs : WF_vars(Proceed(p)) /\ SF_vars(Acquire(p))

\* validate_post and validate_balance called once on arguments of every shape.
PostRoles == {"finance", "staff"}
PostHeaders ==
    {[tx_id |-> 1, org_id |-> "org1", tx_type |-> ty, status |-> st,
      created_by_pubkey |-> "pk1"] :
        ty \in {"invoice_out", "journal"}, st \in {"approved", "proposed", "draft"}}
PostLine(id, qty, effect) ==
    [line_id |-> id, tx_id |-> 1, item_id |-> "widget", qty |-> qty, unit_price |-> 100,
     inventory_effect |-> effect, move_ids |-> <<>>]
PostLines == {PostLine(1, 200, "decrease"), PostLine(2, 100, "none")}
PostMove(id, line_id, qty_delta) ==
    [move_id |-> id, tx_id |-> 1, tx_line_id |-> line_id, item_id |-> "widget",
     qty_delta |-> qty_delta, moved_by_pubkey |-> "pk1"]
PostMoves == {PostMove(1, 1, -100), PostMove(2, 1, -101), PostMove(3, 1, -100),
              PostMove(4, 1, 100), PostMove(5, 2, -150)}
PostPostings ==
    {<<>>,
     <<Posting(1, 1, 20000, 0), Posting(2, 1, 0, 20000)>>,
     <<Posting(1, 1, 20000, 0), Posting(2, 1, 0, 19999)>>,
     <<Posting(1, 1, 20000, 0), Posting(2, 1, 0, 19998)>>,
     <<Posting(1, 2, 100, 0), Posting(2, 2, 0, 100)>>,
     <<Posting(1, 1, 20000, 0), Posting(2, 1, 0, 20000), Posting(3, 2, 500, 0)>>}
Atom(tx_id, approval_type, signature_ref) ==
    [approval_id |-> 1, tx_id |-> tx_id, approval_type |-> approval_type,
     signer_pubkey |-> "pk1", signature_ref |-> signature_ref]
PostApprovals ==
    {<<>>,
     <<Atom(1, "post", "sig1")>>,
     <<Atom(1, "propose", "sig1")>>,
     <<Atom(2, "post", "sig1")>>,
     <<Atom(1, "post", "")>>,
     <<Atom(1, "propose", "sig1"), Atom(2, "post", "sig1"), Atom(1, "post", "")>>,
     <<Atom(1, "post", ""), Atom(1, "post", "sig1")>>}
BalanceAmounts == {0, 1, 2, 100}
BalancePostings ==
    UNION {[1 .. k -> {Posting(1, 1, d, c) : d \in BalanceAmounts, c \in BalanceAmounts}] :
             k \in 0 .. MaxPostings}
post_frame == <<guard_vars, sm_log, abac_last, env_vars, store_vars, audit_vars>>

InitPost == GuardInit /\ StatusInit /\ AbacInit /\ EnvInit /\ StoreInit

NextPost ==
    \/ /\ post_last = NoPostCall
       /\ \E r \in PostRoles, tx \in PostHeaders, ls \in SUBSET PostLines,
             ms \in SUBSET PostMoves, posts \in PostPostings, ap \in PostApprovals :
              ValidatePostCall(Actor("pk1", r, 0), tx, ls, ms, posts, ap)
              /\ UNCHANGED post_frame
    \/ /\ post_last = NoPostCall
       /\ \E posts \in BalancePostings :
              ValidateBalanceCall(posts) /\ UNCHANGED post_frame

SpecPost == InitPost /\ [][NextPost]_vars

\* generate_postings called on its own, on up to MaxLedgerLines lines.
LedgerLine(qty, unit_price, tax_rate, effect, account_id) ==
    [line_id |-> 1, tx_id |-> 1, item_id |-> "widget", account_id |-> account_id,
     description |-> "line", qty |-> qty, unit_price |-> unit_price,
     inventory_effect |-> effect, move_ids |-> <<>>, tax_rate |-> tax_rate]
LedgerLines ==
    {LedgerLine(1000, u, r, e, a) :
        u \in {10000, -5000, 0}, r \in {0, 10}, e \in {"decrease", "none"},
        a \in {NoAccount, "bank"}}
LedgerLineLists == UNION {[1 .. k -> LedgerLines] : k \in 0 .. MaxLedgerLines}

InitLedger == GuardInit /\ StatusInit /\ AbacInit /\ EnvInit /\ StoreInit

NextLedger ==
    /\ post_last = NoPostCall
    /\ \E ty \in LedgerTxTypes, ls \in LedgerLineLists, hm \in BOOLEAN :
           GeneratePostingsCall(ty, ls, hm) /\ UNCHANGED post_frame

SpecLedger == InitLedger /\ [][NextLedger]_vars

\* ---------------------------------------------------------------- C1, C2

\* C1: check_and_record decides every call by the table: an id accepted before
\* fails as duplicate (whatever the actor and lamport); otherwise a lamport not
\* above the actor's recorded maximum M fails as rewind carrying (lamport, M);
\* otherwise the call succeeds, records the id and sets the actor's maximum.
C1_DecisionTable ==
    rg_last.called =>
        LET a == rg_last.actor
            m == rg_last.mutation_id
            l == rg_last.lamport
            pre == rg_last.pre
        IN  IF m \in pre.seen_mutations
            THEN rg_last.res = Err("ERR_REPLAY_MUTATION_ID", <<m>>)
            ELSE IF a \in DOMAIN pre.max_lamport /\ l <= pre.max_lamport[a]
            THEN rg_last.res = Err("ERR_LAMPORT_REWIND", <<l, pre.max_lamport[a]>>)
            ELSE /\ rg_last.res = Ok
                 /\ m \in replay.seen_mutations
                 /\ a \in DOMAIN replay.max_lamport
                 /\ replay.max_lamport[a] = l

\* A duplicate rejected although its lamport is above the caller's maximum and
\* the id was first accepted from another actor.
C1_Witness ==
    /\ rg_last.called
    /\ rg_last.res.code = "ERR_REPLAY_MUTATION_ID"
    /\ rg_last.actor \in DOMAIN rg_last.pre.max_lamport
    /\ rg_last.lamport > rg_last.pre.max_lamport[rg_last.actor]
    /\ \E b \in DOMAIN rg_last.pre.max_lamport : b # rg_last.actor

\* C2: a rejected call leaves the seen-id set and every actor's maximum as they
\* were; an accepted call adds exactly the id and changes only the caller's maximum.
C2_Frame ==
    rg_last.called =>
        LET pre == rg_last.pre IN
        IF rg_last.res.ok
        THEN /\ replay.seen_mutations = pre.seen_mutations \cup {rg_last.mutation_id}
             /\ DOMAIN replay.max_lamport = DOMAIN pre.max_lamport \cup {rg_last.actor}
             /\ \A b \in DOMAIN pre.max_lamport :
                    b # rg_last.actor => replay.max_lamport[b] = pre.max_lamport[b]
        ELSE replay = pre

\* An id once rejected for rewind is accepted on resubmission with a higher
\* lamport, while another actor already has a recorded maximum.
C2_Witness ==
    /\ rg_last.called
    /\ rg_last.res.ok
    /\ rg_last.mutation_id \in rg_rewound
    /\ \E b \in DOMAIN rg_last.pre.max_lamport : b # rg_last.actor

\* ---------------------------------------------------------------- C5

LegalEdges ==
    {<<"draft", "proposed">>, <<"draft", "void">>, <<"proposed", "approved">>,
     <<"proposed", "void">>, <<"approved", "posted">>}

\* C5: transition returns Ok(target) exactly for the five legal pairs, and for
\* every other pair fails with the invalid-status error naming both statuses.
C5_TransitionTable ==
    \A i \in 1 .. Len(sm_log) :
        LET e == sm_log[i] IN
        IF <<e.current, e.target>> \in LegalEdges
        THEN e.res.ok /\ e.res.detail = <<e.target>>
        ELSE /\ ~e.res.ok
             /\ e.res.code = "ERR_INVALID_STATUS"
             /\ e.res.detail = <<e.current, e.target>>

\* A legal transition and a refused transition out of a terminal status were both made.
C5_Witness ==
    /\ \E i \in 1 .. Len(sm_log) : sm_log[i].res.ok
    /\ \E i \in 1 .. Len(sm_log) :
           sm_log[i].current = "posted" /\ sm_log[i].target = "void" /\ ~sm_log[i].res.ok

\* ---------------------------------------------------------------- C7

\* The rule table of the policy: the roles each action admits and the
\* transaction statuses on which it is refused.
RuleRoles(action) ==
    CASE action \in {"tx.create", "tx.edit", "invmove.create"} ->
              {"staff", "manager", "finance", "owner_admin"}
      [] action \in {"tx.post", "tx.reverse", "posting.create", "posting.finalize"} ->
              {"finance", "owner_admin"}
      [] action = "tx.void" -> {"manager", "finance", "owner_admin"}
      [] action = "index.update" -> {"engine"}
      [] action = "audit.read" -> {"auditor", "finance", "owner_admin"}

RuleDeniedStatuses(action) ==
    CASE action = "tx.edit" -> {"posted", "void"}
      [] action \in {"invmove.create", "tx.void"} -> {"posted"}
      [] OTHER -> {}

C9_RoundTrip ==
    (env # NoEnvelope /\ env_field = "none" /\ env_res # NotVerified) => env_res = Ok

\* The round trip does succeed when actor.pubkey is the node key's own hex encoding.
C9_NodeIdentityRoundTrip ==
    (/\ env # NoEnvelope /\ env_field = "none" /\ env_res # NotVerified
     /\ env.actor_pubkey = NodePubKeyHex) => env_res = Ok

\* C10: an envelope that verifies, with any one of ops, content_hash, signature,
\* prev_hash, lamport, issued_at_ms or envelope_version changed to a different
\* value, fails verify() with the signature-invalid error.
C10_TamperDetected ==
    (/\ env # NoEnvelope /\ env_field # "none" /\ env_res # NotVerified
     /\ VerifyEnvelope(env_orig) = Ok)
        => (~env_res.ok /\ env_res.code = "ERR_SIG_INVALID")

\* Every change is detected except a re-spelling of the signature's hex digits.
C10_DetectedUnlessRespelled ==
    (/\ env # NoEnvelope /\ env_field # "none" /\ env_res # NotVerified
     /\ VerifyEnvelope(env_orig) = Ok
     /\ ~(env_field = "signature" /\ HexDecode(env.signature) = HexDecode(env_orig.signature)))
        => (~env_res.ok /\ env_res.code = "ERR_SIG_INVALID")

\* C3: in the order in which mutations are committed to the store, the
\* lamports of one actor strictly increase, and no two committed mutations
\* share a mutation id.
C3_CommitOrder ==
    \A i, j \in 1 .. Len(commits) :
        i < j =>
            /\ commits[i].mutation_id # commits[j].mutation_id
            /\ commits[i].actor_pubkey = commits[j].actor_pubkey
                  => commits[i].lamport < commits[j].lamport

\* A transaction, a line and a movement are committed, two of them by one
\* actor and one by the other.
C3_Witness ==
    /\ Len(commits) = 3
    /\ DOMAIN invmoves # {}
    /\ \E i, j, k \in 1 .. 3 :
          /\ i < j
          /\ commits[i].actor_pubkey = commits[j].actor_pubkey
          /\ commits[k].actor_pubkey # commits[i].actor_pubkey

\* The last call that came to the replay guard presented the actor and lamport
\* that another thread's call, still on its way to the audit log, committed.
RacedAdmission(q) ==
    /\ pc[q] = "audit"
    /\ last_admission.proc \notin {NoProc, q}
    /\ last_admission.pubkey = loc[q].envelope.actor_pubkey
    /\ last_admission.lamport = loc[q].envelope.lamport

\* C4: of two mutating calls in flight together with the same actor and
\* lamport, the one that comes second to the replay guard is not applied: it
\* fails with the lamport rewind error.
C4_OneWinner ==
    \A q \in Procs :
        RacedAdmission(q) =>
            /\ ~last_admission.res.ok
            /\ last_admission.res.code = "ERR_LAMPORT_REWIND"
            /\ Cardinality({i \in 1 .. Len(commits) :
                              /\ commits[i].actor_pubkey = last_admission.pubkey
                              /\ commits[i].lamport = last_admission.lamport}) = 1

C4_Witness == \E q \in Procs : RacedAdmission(q) /\ ~last_admission.res.ok

\* C6: every step that changes the status of a transaction follows a legal
\* edge, and a posted or void transaction keeps its status.
C6_LegalStatusChanges ==
    [][\A t \in DOMAIN transactions :
          /\ t \in DOMAIN transactions'
          /\ transactions'[t].status # transactions[t].status
                => <<transactions[t].status, transactions'[t].status>> \in LegalEdges
          /\ transactions[t].status \in {"posted", "void"}
                => transactions'[t].status = transactions[t].status]_vars

\* A transaction went all the way to posted while a second erp_post_tx, whose
\* validation saw it approved, still waits to write.
C6_Witness ==
    \E t \in DOMAIN transactions, p \in Procs :
        /\ transactions[t].status = "posted"
        /\ pc[p] = "post_tx_validated"
        /\ loc[p].tx_id = t

\* C8: a transaction is void only because a Manager, Finance or OwnerAdmin
\* caller voided it.
C8_VoidOnlyByPrivileged ==
    \A t \in DOMAIN transactions :
        transactions[t].status = "void"
            => status_by[t] \in {"manager", "finance", "owner_admin"}

\* ---------------------------------------------------------------- C11, C12, C13

\* Entry i of the file is chained onto its predecessor (the genesis value for
\* the first) and carries the hash of its own envelope and that predecessor.
Chained(file, i) ==
    LET prev == IF i = 1 THEN "erp_genesis" ELSE file[i - 1].entry.chain_hash IN
    /\ file[i].utf8 /\ file[i].json
    /\ file[i].entry.chain_prev_hash = prev
    /\ file[i].entry.chain_hash = ChainHash(file[i].entry.envelope, prev)

\* C11: from an empty log, after the appends of create_tx, add_line and
\* create_invmove callers in any interleaving (some of them failing and
\* writing nothing), every persisted entry is chained onto the one before it,
\* carries H(envelope JSON || chain_prev_hash), and verify_chain() is true.
C11_ChainIntact ==
    /\ \A i \in 1 .. Len(audit_file) : Chained(audit_file, i)
    /\ VerifyChain(audit_file)

\* Two entries persisted, in the opposite order to that of their commits.
C11_Witness ==
    /\ Len(audit_file) >= 2
    /\ Len(commits) >= 2
    /\ audit_file[1].entry.envelope = commits[2]
    /\ audit_file[2].entry.envelope = commits[1]

\* C12: once one persisted line has been altered (its envelope, its
\* chain_hash, its chain_prev_hash, or the line made unreadable),
\* verify_chain() returns false.
C12_FailsClosed ==
    (chain_res.called /\ audit_changed # 0) => ~chain_res.intact

\* What verify_chain does guarantee: the alteration is found unless the
\* altered line is the last one and no longer decodes as UTF-8.
C12_FailsClosedUnlessSkipped ==
    (/\ chain_res.called
     /\ audit_changed # 0
     /\ (audit_file[audit_changed].utf8 \/ audit_changed < Len(audit_file)))
    => ~chain_res.intact

\* The entries before the altered one that parse still recompute.
C12_PrefixRecomputes ==
    audit_changed # 0 =>
        \A j \in 1 .. (audit_changed - 1) : audit_file[j].json => Chained(audit_file, j)

\* The fragments the store holds, by fragment id.
StoredFragments(txs, lns, mvs) ==
    {TxHdrId(t) : t \in DOMAIN txs} \cup {TxLineFragId(l) : l \in DOMAIN lns}
    \cup {InvMoveFragId(m) : m \in DOMAIN mvs}

\* C13: when the append at the end of create_tx, add_line or create_invmove
\* fails, the call returns success and the step changes nothing in the store:
\* the object the mutation wrote, its ReplayGuard record and the actor's
\* prev-hash entry are all still there.
C13_AppendFailureKeepsCommit ==
    [][\A p \in Procs :
          (pc[p] = "audit" /\ pc'[p] = "idle" /\ audit_file' = audit_file) =>
             LET e == loc[p].envelope IN
             /\ audit_return'.ok
             /\ <<transactions, lines, invmoves, replay, actor_prev_hash>>'
                  = <<transactions, lines, invmoves, replay, actor_prev_hash>>
             /\ e.ops[1].fragment_id \in StoredFragments(transactions', lines', invmoves')
             /\ e.mutation_id \in replay'.seen_mutations
             /\ e.actor_pubkey \in DOMAIN replay'.max_lamport
             /\ replay'.max_lamport[e.actor_pubkey] >= e.lamport
             /\ e.actor_pubkey \in DOMAIN actor_prev_hash']_vars

\* Every caller is back, and some committed mutation never reached the log.
C13_Witness ==
    /\ audit_return.ok
    /\ \A p \in Procs : pc[p] = "idle"
    /\ Len(commits) > Len(audit_file)
    /\ DOMAIN lines # {}

\* ---------------------------------------------------------------- C14

\* The atoms of a list that count as a post approval of transaction tx_id.
PostAtoms(approvals, tx_id) ==
    {i \in 1 .. Len(approvals) :
        /\ approvals[i].tx_id = tx_id
        /\ approvals[i].approval_type = "post"
        /\ approvals[i].signature_ref # ""}

\* C14: validate_post on an approved transaction by an actor allowed to post
\* fails with the missing-approval error carrying (tx id, "post") when the
\* approvals hold no atom for that transaction of type post with a non-empty
\* signature reference, and never with that error when they hold one.
C14_ApprovalRequired ==
    (/\ post_last.fn = "validate_post"
     /\ post_last.tx.status = "approved"
     /\ post_last.actor.role \in {"finance", "owner_admin"})
    => IF PostAtoms(post_last.approvals, post_last.tx.tx_id) = {}
       THEN post_last.res = Err("ERR_APPROVAL_MISSING", <<post_last.tx.tx_id, "post">>)
       ELSE post_last.res.code # "ERR_APPROVAL_MISSING"

\* An atom of another type, one for another transaction and one without a
\* signature reference together do not make a post approval.
C14_Witness ==
    /\ post_last.fn = "validate_post"
    /\ post_last.tx.status = "approved"
    /\ post_last.actor.role = "finance"
    /\ Len(post_last.approvals) = 3
    /\ post_last.res.code = "ERR_APPROVAL_MISSING"

\* ---------------------------------------------------------------- C15

\* The call came to the fulfillment check of an inventory-bearing type with
\* at least one movement of the transaction.
AtFulfillment ==
    /\ post_last.fn = "validate_post"
    /\ post_last.actor.role \in {"finance", "owner_admin"}
    /\ post_last.tx.status = "approved"
    /\ PostAtoms(post_last.approvals, post_last.tx.tx_id) # {}
    /\ post_last.tx.tx_type \in {"invoice_out", "stock_receipt"}
    /\ \E m \in post_last.invmoves : m.tx_id = post_last.tx.tx_id

\* The movements of the call linked to a line, and the sum of their absolute
\* quantities.
LinkedMoves(line) ==
    {m \in post_last.invmoves : m.tx_id = post_last.tx.tx_id /\ m.tx_line_id = line.line_id}
MoveSum(line) ==
    LET ms == LinkedMoves(line) IN SumOver(ms, [m \in ms |-> Abs(m.qty_delta)])

\* The lines that have a movement against their inventory effect.
WrongWay(line) ==
    \E m \in LinkedMoves(line) :
        \/ line.inventory_effect = "increase" /\ m.qty_delta < 0
        \/ line.inventory_effect = "decrease" /\ m.qty_delta > 0

\* The result is one of the fifth check, or success.
PastFulfillment ==
    post_last.res.ok \/ post_last.res.code \in {"ERR_POSTINGS_MISSING", "ERR_BALANCE_FAIL"}

OwnPostings(posts, t) == SelectSeq(posts, LAMBDA q : q.tx_id = t)

\* Total debit and total credit of a list differ by at most 0.01.
Balanced(posts) ==
    LET idx == 1 .. Len(posts)
        debit == SumOver(idx, [i \in idx |-> posts[i].debit_amount])
        credit == SumOver(idx, [i \in idx |-> posts[i].credit_amount])
    IN  Abs(debit - credit) <= 1

\* validate_post on transaction t as erp_post_tx would call it now: past the
\* first four checks it returns the missing-postings error when no supplied
\* posting carries t, the balance error when those that do are out of
\* balance, and success otherwise; it never succeeds on such a list.
PostingsChecked(t) ==
    \A a \in StoreCallers, ap \in StoreApprovals, posts \in StorePostings :
        LET tx == transactions[t]
            tx_lines == {lines[l] : l \in {x \in DOMAIN lines : lines[x].tx_id = t}}
            tx_moves == {invmoves[m] : m \in {x \in DOMAIN invmoves : invmoves[x].tx_id = t}}
            own == OwnPostings(posts, t)
            reached == /\ a.role \in {"finance", "owner_admin"}
                       /\ tx.status = "approved"
                       /\ PostAtoms(ap, t) # {}
                       /\ FulfillmentErrors(tx, tx_lines, tx_moves) = {}
        IN  \A res \in ValidatePost(a, tx, tx_lines, tx_moves, posts, ap) :
               /\ res.ok => (own # <<>> /\ Balanced(own))
               /\ reached =>
                     IF own = <<>> THEN res = Err("ERR_POSTINGS_MISSING", <<t>>)
                     ELSE IF ~Balanced(own) THEN res.code = "ERR_BALANCE_FAIL"
                     ELSE res.ok

\* A step that makes transaction t posted is the write of an erp_post_tx call
\* whose own postings for t are there and balance.
PostedWithPostings(t) ==
    (/\ t \in DOMAIN transactions
     /\ transactions[t].status # "posted"
     /\ transactions'[t].status = "posted")
    => \E p \in Procs :
          /\ pc[p] = "post_tx_write"
          /\ loc[p].tx_id = t
          /\ OwnPostings(loc[p].postings, t) # <<>>
          /\ Balanced(OwnPostings(loc[p].postings, t))

\* C16: validate_post fails with the missing-postings error when the supplied
\* postings hold none for the transaction and with the balance error when
\* those it holds do not balance within 0.01, so erp_post_tx never marks a
\* transaction posted on an empty or unbalanced posting list for its id.
C16_PostingsRequired ==
    /\ [](\A t \in DOMAIN transactions : PostingsChecked(t))
    /\ [][\A t \in StoreIds : PostedWithPostings(t)]_vars

\* A transaction has been posted and the postings of the call are in the store.
C16_Witness ==
    /\ 1 \in DOMAIN transactions
    /\ transactions[1].status = "posted"
    /\ DOMAIN postings # {}

\* ---------------------------------------------------------------- C17

\* The postings the store holds under transaction id t balance within 0.01.
StoredBalanced(t) ==
    LET ids == {i \in DOMAIN postings : postings[i].tx_id = t}
        debit == SumOver(ids, [i \in ids |-> postings[i].debit_amount])
        credit == SumOver(ids, [i \in ids |-> postings[i].credit_amount])
    IN  Abs(debit - credit) <= 1

\* C17: in every reachable state, the postings stored under the id of a
\* posted transaction balance within 0.01.
C17_PostedBalance ==
    \A t \in DOMAIN transactions :
        transactions[t].status = "posted" => StoredBalanced(t)

\* ---------------------------------------------------------------- C18

\* The sum of the absolute quantities of the stored movements linked to a line.
StoredMoveSum(line_id) ==
    LET ms == {m \in DOMAIN invmoves : invmoves[m].tx_line_id = line_id}
    IN  SumOver(ms, [m \in ms |-> Abs(invmoves[m].qty_delta)])

\* C18: in every reachable state, no line's linked movements sum, in absolute
\* quantity, to more than the line's quantity.
C18_MovesWithinLine ==
    \A l \in DOMAIN lines : StoredMoveSum(l) <= lines[l].qty

\* ---------------------------------------------------------------- C19

\* A quantity delta goes against an inventory effect.
AgainstEffect(qty_delta, effect) ==
    \/ effect = "increase" /\ qty_delta < 0
    \/ effect = "decrease" /\ qty_delta > 0

\* Every stored movement agrees in sign with the line it is linked to.
StoredMovesAgree ==
    \A m \in DOMAIN invmoves :
        invmoves[m].tx_line_id \in DOMAIN lines
        /\ ~AgainstEffect(invmoves[m].qty_delta, lines[invmoves[m].tx_line_id].inventory_effect)

\* create_invmove, called now with a request of the opposite sign for a
\* stored line of a stored transaction and the line's item, returns the
\* inventory-effect-mismatch error carrying the delta and the effect.
OppositeSignRejected ==
    \A a \in EngineActors, req \in EngineMoveReqs :
        (/\ req.tx_id \in DOMAIN transactions
         /\ req.tx_line_id \in DOMAIN lines
         /\ req.item_id = lines[req.tx_line_id].item_id
         /\ AgainstEffect(req.qty_delta, lines[req.tx_line_id].inventory_effect))
        => CreateInvMoveCheck(a, req)
             = Err("ERR_INVENTORY_EFFECT_MISMATCH",
                   <<req.qty_delta, lines[req.tx_line_id].inventory_effect>>)

\* validate_post, on a stored transaction once approved (of an inventory-
\* bearing type or not), with a post approval and a movement of the opposite
\* sign within the quantity of one of its lines, returns the same error.
PostRejectsOppositeSign ==
    \A l \in DOMAIN lines, q \in {-100, 100}, ty \in {"invoice_out", "journal"} :
        LET line == lines[l]
            t == line.tx_id
            tx == [transactions[t] EXCEPT !.status = "approved", !.tx_type = ty]
            m == [move_id |-> 0, tx_id |-> t, tx_line_id |-> l, item_id |-> line.item_id,
                  qty_delta |-> q, moved_by_pubkey |-> "pk1"]
            tx_lines == {lines[x] : x \in {y \in DOMAIN lines : lines[y].tx_id = t}}
        IN  AgainstEffect(q, line.inventory_effect) =>
               ValidatePost(Actor("pk1", "finance", 0), tx, tx_lines, {m},
                            <<Posting(1, t, 100, 0), Posting(2, t, 0, 100)>>,
                            <<Atom(t, "post", "sig1")>>)
                 = {Err("ERR_INVENTORY_EFFECT_MISMATCH", <<q, line.inventory_effect>>)}

Total(posts, column) ==
    SumOver(1 .. Len(posts), [i \in 1 .. Len(posts) |-> posts[i][column]])

Generated(tx_type) ==
    /\ post_last.fn = "generate_postings"
    /\ post_last.tx_type = tx_type
    /\ post_last.res.ok

\* The invoiced amount (qty * unit_price, in hundredths) of the lines at the
\* positions idx, and the tax on all lines.
InvoicedAmount(idx) ==
    SumOver(idx, [i \in idx |-> post_last.lines[i].qty * post_last.lines[i].unit_price]) \div 100
TaxAmount ==
    LET idx == 1 .. Len(post_last.lines) IN
    SumOver(idx, [i \in idx |-> post_last.lines[i].qty * post_last.lines[i].unit_price
                                * post_last.lines[i].tax_rate]) \div 10000

\* The legs of the returned postings: account, debit amount, credit amount.
Legs ==
    {<<post_last.postings[i].account_id, post_last.postings[i].debit_amount,
       post_last.postings[i].credit_amount>> : i \in 1 .. Len(post_last.postings)}

C22_BalancedDraftOneSided ==
    (post_last.fn = "generate_postings" /\ post_last.res.ok) =>
        /\ Balanced(post_last.postings)
        /\ \A i \in 1 .. Len(post_last.postings) :
               /\ post_last.postings[i].status = "draft"
               /\ (post_last.postings[i].debit_amount # 0)
                    # (post_last.postings[i].credit_amount # 0)

\* What does hold of every returned list: balance, draft status, and never
\* both amounts of a posting non-zero.
C22_BalancedDraftNeverBoth ==
    (post_last.fn = "generate_postings" /\ post_last.res.ok) =>
        /\ Balanced(post_last.postings)
        /\ \A i \in 1 .. Len(post_last.postings) :
               /\ post_last.postings[i].status = "draft"
               /\ post_last.postings[i].debit_amount = 0
                    \/ post_last.postings[i].credit_amount = 0

\* C23: for a journal, generate_postings returns exactly one posting per
\* line, in order, on the line's account, with |qty * unit_price| as debit
\* when unit_price >= 0 and as credit when unit_price < 0.
C23_OnePostingPerLine ==
    Generated("journal") =>
        /\ Len(post_last.postings) = Len(post_last.lines)
        /\ \A i \in 1 .. Len(post_last.postings) :
               LET line == post_last.lines[i]
                   amount == Abs(line.qty * line.unit_price) \div 100
               IN  /\ post_last.postings[i].account_id = line.account_id
                   /\ post_last.postings[i].debit_amount
                        = (IF line.unit_price >= 0 THEN amount ELSE 0)
                   /\ post_last.postings[i].credit_amount
                        = (IF line.unit_price >= 0 THEN 0 ELSE amount)

\* What does hold: the same, over the lines that carry an account.
C23_OnePostingPerAccountLine ==
    Generated("journal") =>
        LET with_account == SelectSeq(post_last.lines, LAMBDA l : l.account_id # NoAccount) IN
        /\ Len(post_last.postings) = Len(with_account)
        /\ \A i \in 1 .. Len(post_last.postings) :
               LET line == with_account[i]
                   amount == Abs(line.qty * line.unit_price) \div 100
               IN  /\ post_last.postings[i].account_id = line.account_id
                   /\ post_last.postings[i].debit_amount
                        = (IF line.unit_price >= 0 THEN amount ELSE 0)
                   /\ post_last.postings[i].credit_amount
                        = (IF line.unit_price >= 0 THEN 0 ELSE amount)

\* ---------------------------------------------------------------- C24

\* The line records of transaction t.
LinesOf(lns, t) == {lns[l] : l \in {x \in DOMAIN lns : lns[x].tx_id = t}}

\* C24: once a transaction is posted, the set of its lines, their fields and
\* their movement back-reference lists never change again.
C24_PostedLinesImmutable ==
    [][\A t \in DOMAIN transactions :
          transactions[t].status = "posted" => LinesOf(lines', t) = LinesOf(lines, t)]_vars

\* What the edit-time checks do guarantee: every add_line and every
\* create_invmove request that names a posted transaction is rejected.
C24_RequestsForPostedRejected ==
    \A t \in DOMAIN transactions :
        transactions[t].status = "posted" =>
            /\ \A a \in LinesActors : ~AddLineCheck(a, t).ok
            /\ \A a \in LinesActors, req \in LinesMoveReqs :
                   req.tx_id = t => ~CreateInvMoveCheck(a, req).ok

\* A movement filed under a draft transaction hangs on a line of a posted one.
C24_MoveOnPostedLine ==
    \E m \in DOMAIN invmoves :
        /\ invmoves[m].tx_line_id \in DOMAIN lines
        /\ lines[invmoves[m].tx_line_id].tx_id # invmoves[m].tx_id
        /\ transactions[lines[invmoves[m].tx_line_id].tx_id].status = "posted"
        /\ transactions[invmoves[m].tx_id].status = "draft"
        /\ \E i \in 1 .. Len(lines[invmoves[m].tx_line_id].move_ids) :
               lines[invmoves[m].tx_line_id].move_ids[i] = m

\* ---------------------------------------------------------------- C25

\* C25: every posting the store holds for a transaction that erp_post_tx has
\* marked posted has status "final".
C25_PostedPostingsFinal ==
    \A q \in DOMAIN postings :
        (/\ postings[q].tx_id \in DOMAIN transactions
         /\ transactions[postings[q].tx_id].status = "posted")
        => postings[q].status = "final"

\* What erp_post_tx does: a posting is stored with the status it came with.
C25_StoredAsSupplied ==
    \A q \in DOMAIN postings :
        \E posts \in StorePostings : \E i \in 1 .. Len(posts) : postings[q] = posts[i]

\* ---------------------------------------------------------------- C26

\* C26: once erp_post_tx has marked a transaction posted, erp_time_travel
\* over [0, T], for every T from the time of the post on, counts it as posted.
C26_ReplayCountsPosted ==
    \A t \in DOMAIN transactions :
        transactions[t].status = "posted" =>
            \A T \in 0 .. MaxTime : t \in TimeTravel(audit_file, T).posted_ids

\* What the replay does show: the transactions whose create_tx entry is in
\* the log, none of them as posted.
C26_ReplayNeverCountsPosted ==
    \A T \in 0 .. MaxTime :
        /\ TimeTravel(audit_file, T).posted_count = 0
        /\ TimeTravel(audit_file, T).tx_count
             = Cardinality({t \in DOMAIN transactions :
                              \E i \in 1 .. Len(audit_file) :
                                 audit_file[i].entry.envelope.ops[1].fragment_id = TxHdrId(t)})

\* ---------------------------------------------------------------- C28

\* The fourth check fails on the lines and movements of the call: an
\* inventory-bearing type without a movement, a line whose movements exceed
\* its quantity by more than 0.01, a movement against its line's inventory
\* effect or for another item than its line's.
FulfillmentFailing ==
    LET own == {m \in post_last.invmoves : m.tx_id = post_last.tx.tx_id}
        bad_line(l) == \/ WrongWay(l)
                       \/ \E m \in LinkedMoves(l) :
                             l.item_id # NoItem /\ m.item_id # l.item_id
    IN  IF post_last.tx.tx_type \in {"invoice_out", "stock_receipt"}
        THEN \/ own = {}
             \/ \E l \in post_last.lines :
                   MoveSum(l) > l.qty + ROUNDING_TOLERANCE \/ WrongWay(l)
        ELSE \E l \in post_last.lines : bad_line(l)

\* C28: validate_post returns the error of the first of its five checks that
\* fails, in the order policy, status, post approval, fulfillment, postings
\* present and balanced, and Ok exactly when none fails.
C28_FirstFailingCheck ==
    post_last.fn = "validate_post" =>
        LET r == post_last.res
            t == post_last.tx.tx_id
            own == OwnPostings(post_last.postings, t)
        IN  IF post_last.actor.role \notin {"finance", "owner_admin"}
            THEN r.code = "ERR_ABAC_DENY"
            ELSE IF post_last.tx.status # "approved"
            THEN r = Err("ERR_INVALID_STATUS", <<post_last.tx.status, "posted">>)
            ELSE IF PostAtoms(post_last.approvals, t) = {}
            THEN r = Err("ERR_APPROVAL_MISSING", <<t, "post">>)
            ELSE IF FulfillmentFailing
            THEN r.code \in {"ERR_VALIDATION_FAIL", "ERR_MOVE_QTY_EXCEEDS",
                             "ERR_INVENTORY_EFFECT_MISMATCH", "ERR_ITEM_MISMATCH"}
            ELSE IF own = <<>>
            THEN r = Err("ERR_POSTINGS_MISSING", <<t>>)
            ELSE IF ~Balanced(own)
            THEN r.code = "ERR_BALANCE_FAIL"
            ELSE r.ok

\* A staff actor posting a draft transaction without approval, movements or
\* postings is told of the policy denial and of nothing else.
C28_Witness ==
    /\ post_last.fn = "validate_post"
    /\ post_last.actor.role = "staff"
    /\ post_last.tx.status = "draft"
    /\ post_last.approvals = <<>>
    /\ post_last.postings = <<>>
    /\ post_last.res.code = "ERR_ABAC_DENY"

\* ---------------------------------------------------------------- C27, C29

\* The caller is between ERP_STORE.lock() and drop(store) in one of the three
\* mutating commands.
InCommit(p) == pc[p] \in {"create_tx", "add_line", "create_invmove"}

\* C27: the critical section of create_tx, add_line and create_invmove ends
\* in one of two ways: the whole mutation is there (the envelope committed,
\* its mutation id and lamport recorded, the actor's prev-hash set to its
\* hash, the fragment of its first op stored), or the call has failed and the
\* replay guard, the prev-hash cache, the stored objects and the committed
\* envelopes are what they were.
C27_NoPartialApplication ==
    [][\A p \in Procs :
          (InCommit(p) /\ pc'[p] # pc[p]) =>
             IF pc'[p] = "audit"
             THEN LET e == loc'[p].envelope IN
                  /\ commits' = Append(commits, e)
                  /\ e.mutation_id \in replay'.seen_mutations
                  /\ e.mutation_id \notin replay.seen_mutations
                  /\ replay'.max_lamport[e.actor_pubkey] = e.lamport
                  /\ actor_prev_hash'[e.actor_pubkey] = Sha256Hex(ToJson(e))
                  /\ e.ops[1].fragment_id \in StoredFragments(transactions', lines', invmoves')
                  /\ e.ops[1].fragment_id \notin StoredFragments(transactions, lines, invmoves)
             ELSE /\ pc'[p] = "idle"
                  /\ <<replay, actor_prev_hash, transactions, lines, invmoves, commits>>'
                       = <<replay, actor_prev_hash, transactions, lines, invmoves, commits>>]_vars

\* Both endings have happened: a mutation is committed whole, and a later
\* call of the same actor, authorized and then refused by the replay guard,
\* has come back with the guard holding nothing but the committed mutation.
C27_Witness ==
    /\ Len(commits) = 1
    /\ last_admission.proc # NoProc
    /\ ~last_admission.res.ok
    /\ last_admission.pubkey = commits[1].actor_pubkey
    /\ replay.seen_mutations = {commits[1].mutation_id}
    /\ \A p \in Procs : pc[p] = "idle"

\* The positions in the commit order of the envelopes of one actor.
ActorCommits(pk) == {i \in 1 .. Len(commits) : commits[i].actor_pubkey = pk}

\* C29: in the order of commitment, the first envelope of every actor has
\* prev_hash "genesis" and every later one has the hash of the whole
\* serialized envelope committed before it for the same actor, whatever other
\* actors commit in between.
C29_ActorChain ==
    \A i \in 1 .. Len(commits) :
        LET earlier == {j \in ActorCommits(commits[i].actor_pubkey) : j < i} IN
        IF earlier = {}
        THEN commits[i].prev_hash = "genesis"
        ELSE LET j == CHOOSE k \in earlier : \A m \in earlier : m <= k IN
             commits[i].prev_hash = Sha256Hex(ToJson(commits[j]))

\* Two envelopes of one actor with an envelope of another actor committed
\* between them.
C29_Witness ==
    /\ Len(commits) >= 3
    /\ commits[1].actor_pubkey = commits[3].actor_pubkey
    /\ commits[2].actor_pubkey # commits[1].actor_pubkey

\* ---------------------------------------------------------------- C30

\* The chain_hash of the last line an append wrote whole, the genesis value
\* when there is none.
RECURSIVE LastWrittenHash(_, _)
LastWrittenHash(file, i) ==
    IF i = 0 THEN "erp_genesis"
    ELSE IF file[i].newline THEN file[i].entry.chain_hash
    ELSE LastWrittenHash(file, i - 1)

\* C30: an append either writes the whole line, chained onto the pointer, and
\* advances last_chain_hash to that line's chain_hash, or it fails and leaves
\* last_chain_hash as it was; so the pointer is always the chain_hash of the
\* last entry written successfully, which is what the next successful append
\* takes as chain_prev_hash.
C30_PointerAtomic ==
    /\ [](audit_changed = 0 =>
             last_chain_hash = LastWrittenHash(audit_file, Len(audit_file)))
    /\ [][audit_changed' = audit_changed =>
            IF audit_file' = audit_file
            THEN last_chain_hash' = last_chain_hash
            ELSE LET written == audit_file'[Len(audit_file')] IN
                 IF written.newline
                 THEN /\ written.entry.chain_prev_hash = last_chain_hash
                      /\ written.entry.chain_hash
                           = ChainHash(written.entry.envelope, last_chain_hash)
                      /\ last_chain_hash' = written.entry.chain_hash
                 ELSE last_chain_hash' = last_chain_hash]_vars

\* A successful append after one that failed part-way after an earlier
\* successful one: the second line holds the torn text and then the whole new
\* entry, which is chained onto the first.
C30_Witness ==
    /\ audit_changed = 0
    /\ Len(audit_file) = 2
    /\ audit_file[1].newline /\ audit_file[1].json
    /\ audit_file[2].newline /\ ~audit_file[2].json
    /\ audit_file[2].entry.chain_prev_hash = audit_file[1].entry.chain_hash
    /\ last_chain_hash = audit_file[2].entry.chain_hash

\* ---------------------------------------------------------------- C31

\* C31 (as stated): after the process restarts with a non-empty audit log the
\* log-wide chain stays unbroken: as long as nobody edits the file, every
\* persisted entry, the first one appended after a restart included, has the
\* chain_hash of the entry before it as its chain_prev_hash (the genesis
\* value only when it is the first line), and verify_chain() returns true.
C31_ChainSurvivesRestart ==
    audit_changed = 0 =>
        /\ \A i \in 1 .. Len(audit_file) :
               audit_file[i].entry.chain_prev_hash =
                   IF i = 1 THEN "erp_genesis" ELSE audit_file[i - 1].entry.chain_hash
        /\ VerifyChain(audit_file)
        /\ chain_res.called => chain_res.intact

\* Between two restarts the entries an append writes are chained onto one
\* another: an append made when ERP_LAST_HASH is not the genesis value chains
\* onto the last line of the file.
C31_ChainedWithinOneRun ==
    [][(last_chain_hash # "erp_genesis" /\ Len(audit_file') > Len(audit_file))
         => audit_file'[Len(audit_file')].entry.chain_prev_hash
              = audit_file[Len(audit_file)].entry.chain_hash]_vars

\* A log with an entry appended after a restart: its second line starts at
\* the genesis value again and verify_chain() has returned false.
C31_BrokenAfterRestart ==
    /\ audit_changed = 0
    /\ Len(audit_file) >= 2
    /\ audit_file[2].entry.chain_prev_hash = "erp_genesis"
    /\ chain_res.called /\ ~chain_res.intact

\* ---------------------------------------------------------------- C32

\* The objects a rejected call must leave alone.
Persistent ==
    <<transactions, lines, invmoves, postings, replay, actor_prev_hash, audit_file,
      last_chain_hash>>

\* What the replay guard will answer the next mutation of actor a.
Admitted(a) == CheckAndRecord(replay, a.pubkey, FreshMutationId, a.lamport).res

\* The error codes of the failures the claim lists.
RefusalCodes ==
    {"ERR_ABAC_DENY", "ERR_VALIDATION_FAIL", "ERR_ITEM_MISMATCH",
     "ERR_INVENTORY_EFFECT_MISMATCH", "ERR_REPLAY_DUPLICATE", "ERR_LAMPORT_REWIND"}

\* The call of p comes back to its caller in this step, and nothing the
\* claim lists has changed.
ReturnsUnchanged(p) == pc'[p] = "idle" /\ UNCHANGED Persistent

\* C32: a create_tx, add_line or create_invmove call that returns an error
\* (authorization denial, unknown transaction or line, item or sign mismatch,
\* replay rejection) leaves transactions, lines, movements, postings, the
\* ReplayGuard, the prev-hash cache and the audit log as they were: neither
\* the step in which it takes the store lock nor the step in which it returns
\* the error changes any of them, and every request the checks or the replay
\* guard refuse returns in that way with one of those errors.
C32_RejectedCallChangesNothing ==
    [][\A p \in LinesProcs :
          /\ (pc[p] = "idle" /\ InCommit(p)') => UNCHANGED Persistent
          /\ (InCommit(p) /\ pc'[p] = "idle") => UNCHANGED Persistent
          /\ pc[p] = "create_tx" =>
                \A a \in LinesActors :
                   ~Admitted(a).ok =>
                      /\ Admitted(a).code \in RefusalCodes
                      /\ CreateTxCommit(p, a, "journal", 0) => ReturnsUnchanged(p)
          /\ pc[p] = "add_line" =>
                \A a \in LinesActors, req \in LinesLineReqs :
                   LET chk == AddLineCheck(a, req.tx_id)
                       res == IF chk.ok THEN Admitted(a) ELSE chk
                   IN  ~res.ok =>
                          /\ res.code \in RefusalCodes
                          /\ AddLineCommit(p, a, req, 0) => ReturnsUnchanged(p)
          /\ pc[p] = "create_invmove" =>
                \A a \in LinesActors, req \in LinesMoveReqs :
                   LET chk == CreateInvMoveCheck(a, req)
                       res == IF chk.ok THEN Admitted(a) ELSE chk
                   IN  ~res.ok =>
                          /\ res.code \in RefusalCodes
                          /\ CreateInvMoveCommit(p, a, req, 0) => ReturnsUnchanged(p)]_vars

\* A call has just been refused by the replay guard while the store holds a
\* transaction, a line, a movement and postings and the log holds entries.
C32_Witness ==
    /\ last_admission.proc # NoProc
    /\ ~last_admission.res.ok
    /\ pc[last_admission.proc] = "idle"
    /\ DOMAIN lines # {} /\ DOMAIN invmoves # {} /\ DOMAIN postings # {}
    /\ Len(audit_file) > 0

\* ---------------------------------------------------------------- C33

\* The statuses of the transactions that get a line in this step, as they
\* are when the line is added.
EditedStatuses ==
    {transactions[lines'[l].tx_id].status : l \in DOMAIN lines' \ DOMAIN lines}

\* C33 (as stated): editing is permitted only while the status is draft or
\* proposed: add_line never adds a line to a transaction whose status is
\* approved, posted or void.
C33_EditOnlyDraftOrProposed ==
    [][EditedStatuses \subseteq {"draft", "proposed"}]_vars

\* What check_abac and add_line enforce: no line is added to a posted or
\* void transaction.
C33_NoEditOnPostedOrVoid ==
    [][EditedStatuses \cap {"posted", "void"} = {}]_vars

\* A line stored for a transaction whose status was approved when add_line
\* ran: the transaction is still approved and the line's envelope, the last
\* one committed, was authorized under that status.
C33_LineAddedToApproved ==
    /\ Len(commits) > 0
    /\ commits[Len(commits)].policy_context.tx_status = "approved"
    /\ \E l \in DOMAIN lines :
          /\ commits[Len(commits)].ops[1].fragment_id = TxLineFragId(l)
          /\ transactions[lines[l].tx_id].status = "approved"

\* ---------------------------------------------------------------- C34

\* A call of erp_transition_status by a caller of role r that finds
\* transaction t in status `from` and asks for `target` sets that status.
TransitionSucceeds(r, from, target) ==
    \A p \in Procs, t \in DOMAIN transactions :
        (/\ pc[p] = "transition_status"
         /\ transactions[t].status = from
         /\ TransitionStatusCommit(p, Actor("pk1", r, 0), t, target))
           => transactions'[t].status = target

\* C34 (as stated): in erp_transition_status a transition from proposed to
\* approved succeeds for the roles finance, manager and owner_admin, and a
\* transition from draft to proposed succeeds for staff.
C34_ApproveAndPropose ==
    [][/\ \A r \in {"finance", "manager", "owner_admin"} :
             TransitionSucceeds(r, "proposed", "approved")
       /\ TransitionSucceeds("staff", "draft", "proposed")]_vars

\* What the handler does: finance and owner_admin approve, staff proposes,
\* and a manager's approval is denied by the tx.post rule and leaves the
\* transaction proposed.
C34_ManagerCannotApprove ==
    [][/\ \A r \in {"finance", "owner_admin"} :
             TransitionSucceeds(r, "proposed", "approved")
       /\ TransitionSucceeds("staff", "draft", "proposed")
       /\ \A p \in Procs, t \in DOMAIN transactions :
             (/\ pc[p] = "transition_status"
              /\ transactions[t].status = "proposed"
              /\ TransitionStatusCommit(p, Actor("pk1", "manager", 0), t, "approved"))
                => /\ transactions'[t].status = "proposed"
                   /\ TransitionStatusCheck(Actor("pk1", "manager", 0), t, "approved").code
                        = "ERR_ABAC_DENY"]_vars

\* A manager's call of erp_transition_status has found a proposed
\* transaction under the store lock.
C34_ManagerAtProposed ==
    \E p \in Procs, t \in DOMAIN transactions :
        /\ pc[p] = "transition_status"
        /\ transactions[t].status = "proposed"
        /\ ~TransitionStatusCheck(Actor("pk1", "manager", 0), t, "approved").ok

\* ---------------------------------------------------------------- C35

\* The roles the tx.edit rule admits.
EditRoles == {"staff", "manager", "finance", "owner_admin"}

\* The posted transactions an add_line call holding the store lock can be
\* asked to edit.
PostedUnderEdit ==
    {t \in DOMAIN transactions :
        transactions[t].status = "posted" /\ \E p \in Procs : pc[p] = "add_line"}

\* C35 (as stated): add_line on a posted transaction fails with the
\* line-immutable error (ERR_LINE_IMMUTABLE) naming the transaction, for an
\* actor whose role is allowed to edit.
C35_PostedEditLineImmutable ==
    \A t \in PostedUnderEdit, r \in EditRoles :
        AddLineCheck(Actor("pk1", r, 0), t) = Err("ERR_LINE_IMMUTABLE", <<t>>)

\* What add_line returns there: the denial of the tx.edit rule, which is
\* asked first; no request on any transaction of any status comes to the
\* line-immutable error.
C35_PostedEditDeniedByPolicy ==
    /\ \A t \in PostedUnderEdit, r \in EditRoles :
          AddLineCheck(Actor("pk1", r, 0), t) = CheckAbac(r, "tx.edit", "posted")
    /\ ~CheckAbac("staff", "tx.edit", "posted").ok
    /\ CheckAbac("staff", "tx.edit", "posted").code = "ERR_ABAC_DENY"
    /\ \A t \in DOMAIN transactions, r \in Roles :
          AddLineCheck(Actor("pk1", r, 0), t).code # "ERR_LINE_IMMUTABLE"

\* An add_line call holds the store lock while a transaction is posted.
C35_EditAtPosted == PostedUnderEdit # {}

\* ---------------------------------------------------------------- C36

\* What generate_postings returns for a debit note on the lines and the
\* has-movements flag of the call made.
AsDebitNote == GeneratePostings("debit_note", 1, post_last.lines, post_last.has_invmoves)

\* The legs of a posting list with the two sides swapped: account, credit
\* amount, debit amount.
SwappedLegs(posts) ==
    {<<posts[i].account_id, posts[i].credit_amount, posts[i].debit_amount>> :
        i \in 1 .. Len(posts)}

\* C36 (as stated): for the same lines and has-movements flag,
\* generate_postings for a debit note succeeds whenever it succeeds for an
\* invoice-in and returns the same accounts and amounts with debit and
\* credit swapped, the tax leg included when the tax total is positive.
C36_DebitNoteMirrorsInvoiceIn ==
    Generated("invoice_in") =>
        /\ AsDebitNote.res.ok
        /\ Len(AsDebitNote.postings) = Len(post_last.postings)
        /\ SwappedLegs(AsDebitNote.postings) = Legs

\* What the DebitNote arm does: it mirrors the invoice-in when the tax total
\* is zero, and with a tax total above the tolerance it pushes no tax leg
\* and fails the balance check with (gross, net, tax).
C36_MirrorsOnlyWithoutTax ==
    Generated("invoice_in") =>
        LET totals == LineTotals(post_last.lines) IN
        /\ totals.tax_total = 0 =>
              /\ AsDebitNote.res.ok
              /\ SwappedLegs(AsDebitNote.postings) = Legs
        /\ totals.tax_total > ROUNDING_TOLERANCE =>
              AsDebitNote.res = Err("ERR_BALANCE_FAIL",
                                    <<totals.line_total + totals.tax_total,
                                      totals.line_total, totals.tax_total>>)

\* generate_postings has failed for a debit note on lines with tax for which
\* the invoice-in is generated.
C36_DebitNoteWithTaxFails ==
    /\ post_last.fn = "generate_postings"
    /\ post_last.tx_type = "debit_note"
    /\ ~post_last.res.ok
    /\ LineTotals(post_last.lines).tax_total > 0
    /\ GeneratePostings("invoice_in", 1, post_last.lines, post_last.has_invmoves).res.ok

\* ---------------------------------------------------------------- C37

\* The inventory movements stored for transaction t, as erp_post_tx selects
\* them.
MovesOf(mvs, t) == {mvs[m] : m \in {x \in DOMAIN mvs : mvs[x].tx_id = t}}

\* The caller p has had validate_post accept transaction loc[p].tx_id and
\* has not yet marked it posted.
Validated(p) == pc[p] \in {"post_tx_validated", "post_tx_write"}

\* C37 (as stated): when erp_post_tx marks a transaction posted, its stored
\* lines and movements are the ones validate_post checked: from the end of
\* the validation to the status change no step changes the lines or the
\* movements stored for that transaction, and its status changes only by
\* the write of that same call.
C37_PostsWhatWasValidated ==
    [][\A p \in Procs :
          Validated(p) =>
             LET t == loc[p].tx_id IN
             /\ LinesOf(lines', t) = LinesOf(lines, t)
             /\ MovesOf(invmoves', t) = MovesOf(invmoves, t)
             /\ transactions'[t].status # transactions[t].status
                   => (pc[p] = "post_tx_write" /\ pc'[p] = "idle")]_vars

\* The gap is between the two critical sections of erp_post_tx only: once
\* the call holds the store lock for its write, nothing but that write
\* happens to the transaction.
C37_WriteUnderLock ==
    [][\A p \in Procs :
          (pc[p] = "post_tx_write" /\ pc'[p] = "post_tx_write") =>
             LET t == loc[p].tx_id IN
             /\ LinesOf(lines', t) = LinesOf(lines, t)
             /\ MovesOf(invmoves', t) = MovesOf(invmoves, t)
             /\ transactions'[t] = transactions[t]]_vars

\* ---------------------------------------------------------------- C38

\* The positions of the audit log that hold an envelope of actor pk.
ActorEntries(pk) ==
    {i \in 1 .. Len(audit_file) : audit_file[i].entry.envelope.actor_pubkey = pk}

\* C38 (as stated): under any interleaving of create_tx, add_line and
\* create_invmove calls the envelopes of one actor stand in the audit log in
\* the order in which they were committed: their lamports increase strictly
\* down the log, and each one's prev_hash is the envelope hash of that
\* actor's entry before it in the log ("genesis" for the actor's first).
C38_LogOrderIsCommitOrder ==
    \A pk \in PubKeys :
        \A j \in ActorEntries(pk) :
            LET before == {i \in ActorEntries(pk) : i < j}
                e == audit_file[j].entry.envelope
            IN  IF before = {}
                THEN e.prev_hash = "genesis"
                ELSE LET i == CHOOSE x \in before : \A y \in before : y <= x
                         d == audit_file[i].entry.envelope
                     IN  /\ d.lamport < e.lamport
                         /\ e.prev_hash = EnvelopeHash(d)

\* What the log does keep: every entry holds a committed envelope, no
\* envelope is logged twice, and the log-wide chain links the entries in the
\* order in which the appends ran.
C38_LogHoldsCommits ==
    /\ \A i \in 1 .. Len(audit_file) :
          /\ \E c \in 1 .. Len(commits) : commits[c] = audit_file[i].entry.envelope
          /\ \A j \in 1 .. Len(audit_file) :
                audit_file[j].entry.envelope = audit_file[i].entry.envelope => j = i
    /\ VerifyChain(audit_file)

\* Two envelopes of one actor stand in the log in the reverse of their
\* commit order: the later commit, with the higher lamport, was appended
\* first.
C38_LoggedOutOfOrder ==
    \E i, j \in 1 .. Len(audit_file) :
        /\ i < j
        /\ audit_file[i].entry.envelope.actor_pubkey = audit_file[j].entry.envelope.actor_pubkey
        /\ audit_file[i].entry.envelope.lamport > audit_file[j].entry.envelope.lamport
        /\ audit_file[i].entry.envelope.prev_hash = EnvelopeHash(audit_file[j].entry.envelope)

\* ---------------------------------------------------------------- C39

\* C39 (as stated): referential integrity of the store: every line's tx_id
\* names a stored transaction, every movement's tx_line_id names a stored
\* line, and every movement's tx_id is the tx_id of the line it is linked to.
C39_ReferentialIntegrity ==
    /\ \A l \in DOMAIN lines : lines[l].tx_id \in DOMAIN transactions
    /\ \A m \in DOMAIN invmoves :
          /\ invmoves[m].tx_line_id \in DOMAIN lines
          /\ invmoves[m].tx_id = lines[invmoves[m].tx_line_id].tx_id

\* What the lookups of add_line and create_invmove do establish: every id a
\* line or a movement carries names a stored object, and a movement is on
\* the back-reference list of the line it names.
C39_ReferencesExist ==
    /\ \A l \in DOMAIN lines : lines[l].tx_id \in DOMAIN transactions
    /\ \A m \in DOMAIN invmoves :
          /\ invmoves[m].tx_line_id \in DOMAIN lines
          /\ invmoves[m].tx_id \in DOMAIN transactions
          /\ \E k \in 1 .. Len(lines[invmoves[m].tx_line_id].move_ids) :
                lines[invmoves[m].tx_line_id].move_ids[k] = m

\* A stored movement that names one transaction and a line of another.
C39_MoveAcrossTransactions ==
    \E m \in DOMAIN invmoves :
        /\ invmoves[m].tx_line_id \in DOMAIN lines
        /\ invmoves[m].tx_id \in DOMAIN transactions
        /\ invmoves[m].tx_id # lines[invmoves[m].tx_line_id].tx_id

\* ---------------------------------------------------------------- C40

\* The mutexes the caller p holds.
HeldBy(p) ==
    {l \in {"store", "audit", "last_hash", "db"} :
        CASE l = "store" -> store_lock = p
          [] l = "audit" -> audit_lock = p
          [] l = "last_hash" -> last_hash_lock = p
          [] l = "db" -> db_lock = p}

====
